---- MODULE Spec2Model ----
(***************************************************************************)
(* State-machine model of dx_cluster_analyzer.py: DXClusterAnalyzer.run,   *)
(* the network loop process_cluster_data with its reconnect / failover     *)
(* logic, the web polling loop process_web_mode with fetch_web_data and    *)
(* process_web_data, and the classifier / inclusion filter they share.     *)
(* Frequencies are kHz; times are seconds.                                 *)
(***************************************************************************)
EXTENDS Integers, Sequences, FiniteSets, TLC

(* ---------------- bounds of the model ---------------- *)
StartTime == 900
MaxElapsed == 600
MaxSpots == 2
MaxFaults == 1
MaxCallsignSends == 3

(* ---------------- program constants ---------------- *)
DedupWindow == 600
cache_expiry == 3600
CleanupInterval == 300
FailoverThreshold == 10
InitialReconnectDelay == 1
max_reconnect_delay == 300
buffer_size == 10
SnapshotEvery == 1000
NumUrls == 7
poll_interval == 10
keepalive_interval == 30
IdleThreshold == 120
LoginWindow == 30
ConnectRecvTimeout == 10

Min(a, b) == IF a <= b THEN a ELSE b

(* ---------------- endpoints ---------------- *)
DefaultClusterHost == "cluster.dxwatch.com"

backup_clusters ==
  << "dxc.w1nr.net", "dxc.ve7cc.net", "dxspots.com",
     "cluster-eu-is.com", "arcluster.net" >>

(* ---------------- band rule tables the run may load ---------------- *)
Rule(b, m, s, e, r) ==
  [Band |-> b, Mode |-> m, StartFreq |-> s, EndFreq |-> e, Region |-> r]

TableA ==
  << Rule("40m", "SSB", 7000, 7300, "ALL"),
     Rule("20m", "DIGITAL", 14000, 14099, "ALL"),
     Rule("20m", "SSB", 14150, 14350, "ALL") >>

TableB ==
  << Rule("40m", "CW", 7000, 7040, "R1"),
     Rule("40m", "SSB", 7000, 7300, "R1"),
     Rule("20m", "FM", 14000, 14350, "R1"),
     Rule("20m", "SSB", 14150, 14350, "R1") >>

BandTables == {<< >>, TableA, TableB}

(* ---------------- the band configuration file ---------------- *)
Columns == {"Band", "Mode", "StartFreq", "EndFreq", "Region"}

(* csv.DictReader gives None for a field that a short row does not have *)
None == "None"

MissingFile == [exists |-> FALSE, rows |-> << >>]

ConfigFile(rows) == [exists |-> TRUE, rows |-> rows]

ConfigFiles ==
  {MissingFile,
   (* a file whose header has no Region column *)
   ConfigFile(<< [Band |-> "20m", Mode |-> "SSB",
                  StartFreq |-> 14150, EndFreq |-> 14350] >>),
   (* a row that ends before its Region field *)
   ConfigFile(<< Rule("40m", "SSB", 7000, 7300, "ALL"),
                 Rule("20m", "SSB", 14150, 14350, None) >>)}
  \cup {ConfigFile(t) : t \in BandTables}

(* open fails: False; the rows are stored, then the logging loop reads the *)
(* five columns of every row: a KeyError gives False                       *)
load_band_config(file) ==
  IF ~file.exists THEN [ok |-> FALSE, band_configs |-> << >>]
  ELSE [ok |-> \A n \in 1..Len(file.rows) : Columns \subseteq DOMAIN file.rows[n],
        band_configs |-> file.rows]

(* raw_spots.csv is opened for writing and holds its header line *)
setup_output_files ==
  << <<"Timestamp", "Frequency", "Callsign", "Spotter", "Mode", "Band", "Region">> >>

(* ---------------- comments: sequences of whitespace-separated words ---- *)
UpperWord(w) ==
  CASE w = "cw" -> "CW"
    [] w = "ssb" -> "SSB"
    [] w = "ft8" -> "FT8"
    [] w = "qrs" -> "QRS"
    [] w = "usb" -> "USB"
    [] w = "rtty" -> "RTTY"
    [] OTHER -> w

cw_indicators == {"CW", "QRS", "MORSE"}
ssb_indicators == {"SSB", "LSB", "USB", "PHONE"}
digital_indicators == {"FT8", "FT4", "PSK", "RTTY", "DIGITAL"}

HasWord(comment, words) ==
  \E i \in 1..Len(comment) : UpperWord(comment[i]) \in words

(* value of a decimal token (digits '.' digits) in thousandths; -1 if the  *)
(* word is not a decimal number                                            *)
DecimalMilli(w) ==
  CASE w = "14.195" -> 14195
    [] w = "7.030" -> 7030
    [] w = "14.000" -> 14000
    [] w = "14195.0" -> 14195000
    [] w = "14.500" -> 14500
    [] w = "13999.0" -> 13999000
    [] w = "21.300" -> 21300
    [] OTHER -> -1

(* ---------------- network lines: sequences of whitespace-separated tokens *)
(* float() of a token of the shape digits[.digits], in kHz; -1 otherwise   *)
NumberToken(w) ==
  CASE w = "14205.0" -> 14205
    [] w = "7030.0" -> 7030
    [] OTHER -> -1

(* the spotter token without the ':' or ',' that may follow it *)
SpotterOf(w) ==
  CASE w = "ON4KST:" -> "ON4KST"
    [] w = "W1AW:" -> "W1AW"
    [] OTHER -> w

(* a token of the shape \d{3,4}Z *)
IsTimeToken(w) == w \in {"1200Z", "0300Z"}

NoSpot ==
  [spotter |-> "", dx_call |-> "", comment |-> << >>, time_str |-> "", frequency |-> 0]

(* a token in which \d+\.\d+ finds a match *)
DecimalToken(w) == NumberToken(w) # -1 \/ DecimalMilli(w) # -1

(* float() of a decimal token, in whole kHz *)
FloatKhz(w) ==
  IF NumberToken(w) # -1 THEN NumberToken(w)
  ELSE IF DecimalMilli(w) # -1 THEN DecimalMilli(w) \div 1000
  ELSE -1

(* the longest run of word characters that ends the token: what (\w+)     *)
(* captures in front of the whitespace that follows the token              *)
WordTail(w) ==
  CASE w \in {"ON4KST:", "W1AW:", "Spot:"} -> ""
    [] w \in {"14205.0", "7030.0", "13999.0", "14195.0"} -> "0"
    [] w = "14.195" -> "195"
    [] w = "7.030" -> "030"
    [] w = "14.000" -> "000"
    [] w = "14.500" -> "500"
    [] OTHER -> w

(* the first match in the token of the callsign expression of the last-    *)
(* resort heuristic, ([A-Z0-9]{1,3}/)?[A-Z0-9]{1,2}[0-9][A-Z0-9]{1,3}      *)
(* (/[A-Z0-9]+)?, which is case-sensitive; "" when there is none           *)
CallMatch(w) ==
  CASE w \in {"W1AW", "JA1ABC", "K2XYZ", "1200Z", "0300Z"} -> w
    [] w = "ON4KST:" -> "ON4KST"
    [] w = "W1AW:" -> "W1AW"
    [] w = "14205.0" -> "14205"
    [] w = "7030.0" -> "7030"
    [] w = "13999.0" -> "13999"
    [] w = "14195.0" -> "14195"
    [] w = "14.195" -> "195"
    [] w = "7.030" -> "030"
    [] w = "14.000" -> "000"
    [] w = "14.500" -> "500"
    [] OTHER -> ""

(* matches of the callsign expressions that consist of digits only *)
DigitTokens == {"14205", "7030", "13999", "14195", "195", "030", "000", "500"}

(* the first of a set of positions; 0 if there is none *)
FirstIndex(S) == IF S = {} THEN 0 ELSE CHOOSE i \in S : \A h \in S : i <= h

(* the alternate patterns of parse_dx_spot, tried in order with re.search: *)
(* <spotter> spots <dxcall> on|at <freq> MHz|kHz <comment> [<time>], where *)
(* between the frequency and the comment the expression wants              *)
(* \s+(?:MHz|kHz)?\s+, which single blanks satisfy only with the unit      *)
(* present, and Spot: <word> <freq> <dxcall> <comment>                     *)
parse_dx_spot_alternates(line) ==
  LET SpotsPatternAt(i) ==
        /\ i + 6 <= Len(line)
        /\ WordTail(line[i]) # ""
        /\ line[i + 1] = "spots"
        /\ WordTail(line[i + 2]) = line[i + 2]
        /\ line[i + 3] \in {"on", "at"}
        /\ DecimalToken(line[i + 4])
        /\ line[i + 5] \in {"MHz", "kHz"}
      SpotPatternAt(i) ==
        /\ i + 4 <= Len(line)
        /\ line[i] = "Spot:"
        /\ WordTail(line[i + 1]) = line[i + 1]
        /\ DecimalToken(line[i + 2])
        /\ WordTail(line[i + 3]) = line[i + 3]
  IN
  IF \E i \in 1..Len(line) : SpotsPatternAt(i)
  THEN LET i == FirstIndex({ n \in 1..Len(line) : SpotsPatternAt(n) })
           timed == Len(line) >= i + 7 /\ IsTimeToken(line[Len(line)])
       IN [spotter |-> WordTail(line[i]), dx_call |-> line[i + 2],
           comment |-> SubSeq(line, i + 6,
                              IF timed THEN Len(line) - 1 ELSE Len(line)),
           time_str |-> IF timed THEN line[Len(line)] ELSE "0000Z",
           frequency |-> FloatKhz(line[i + 4])]
  ELSE IF \E i \in 1..Len(line) : SpotPatternAt(i)
  THEN LET i == FirstIndex({ n \in 1..Len(line) : SpotPatternAt(n) })
       IN [spotter |-> "Unknown", dx_call |-> line[i + 3],
           comment |-> SubSeq(line, i + 4, Len(line)),
           time_str |-> "0000Z",
           frequency |-> FloatKhz(line[i + 2])]
  ELSE NoSpot

parse_dx_spot_KeepTime(line) ==
  IF /\ Len(line) >= 6
     /\ line[1] = "DX" /\ line[2] = "de"
     /\ NumberToken(line[4]) # -1
  THEN [spotter |-> SpotterOf(line[3]), dx_call |-> line[5],
        comment |-> SubSeq(line, 6, Len(line)),
        time_str |-> IF Len(line) >= 7 /\ IsTimeToken(line[Len(line)])
                     THEN line[Len(line)] ELSE "0000Z",
        frequency |-> NumberToken(line[4])]
  ELSE parse_dx_spot_alternates(line)

(* the primary pattern: DX de <spotter>[:,] <freq> <dxcall> <comment>      *)
(* [<time>]; the comment is at least one token, and a last token of the    *)
(* shape of a time is the time when a comment token precedes it            *)
parse_dx_spot(line) ==
  IF /\ Len(line) >= 6
     /\ line[1] = "DX" /\ line[2] = "de"
     /\ NumberToken(line[4]) # -1
  THEN LET timed == Len(line) >= 7 /\ IsTimeToken(line[Len(line)]) IN
       [spotter |-> SpotterOf(line[3]), dx_call |-> line[5],
        comment |-> SubSeq(line, 6, IF timed THEN Len(line) - 1 ELSE Len(line)),
        time_str |-> IF timed THEN line[Len(line)] ELSE "0000Z",
        frequency |-> NumberToken(line[4])]
  ELSE parse_dx_spot_alternates(line)

(* line.startswith('DX de ') *)
StartsDxDe(line) == Len(line) >= 3 /\ line[1] = "DX" /\ line[2] = "de"

(* the dispatch of process_cluster_data on one received line: a line that  *)
(* neither starts with 'DX de ' nor holds a decimal number followed by a   *)
(* word is not looked at; parse_dx_spot is called for lines that start     *)
(* with 'DX de ' only. A line that starts with a decimal number is read as *)
(* frequency, callsign, rest ("14025.0 DL0WU CQ at 1023Z"). The last       *)
(* resort takes the first decimal number of the line, times 1000 when it   *)
(* is below 30, and the first match of the callsign expression; the whole  *)
(* line is the comment. The 4-5 digit alternative of the source is reached *)
(* only when there is no decimal number, which the test in front of the    *)
(* dispatch excludes                                                       *)
ParseLine(line) ==
  LET HasDecimalThenWord ==
        \E i \in 1..(Len(line) - 1) : DecimalToken(line[i])
      rest == SubSeq(line, 3, Len(line))
      t == FirstIndex({ x \in 1..Len(rest) : IsTimeToken(rest[x]) })
      FrequencyFirst ==
        [spotter |-> "Unknown", dx_call |-> line[2], comment |-> rest,
         time_str |-> IF t = 0 THEN "0000Z" ELSE rest[t],
         frequency |-> FloatKhz(line[1])]
      f == FirstIndex({ x \in 1..Len(line) : DecimalToken(line[x]) })
      c == FirstIndex({ x \in 1..Len(line) : CallMatch(line[x]) # "" })
      Heuristic ==
        IF f = 0 \/ c = 0 THEN NoSpot
        ELSE [spotter |-> "Unknown", dx_call |-> CallMatch(line[c]),
              comment |-> line, time_str |-> "0000Z",
              frequency |-> IF NumberToken(line[f]) # -1 THEN NumberToken(line[f])
                            ELSE IF DecimalMilli(line[f]) < 30000
                                 THEN DecimalMilli(line[f])
                                 ELSE DecimalMilli(line[f]) \div 1000]
  IN
  IF ~(StartsDxDe(line) \/ HasDecimalThenWord) THEN NoSpot
  ELSE IF StartsDxDe(line) THEN parse_dx_spot(line)
  ELSE IF DecimalToken(line[1]) THEN FrequencyFirst
  ELSE Heuristic

(* ---------------- classifier ---------------- *)
RECURSIVE FirstRule_LastMatch(_, _, _)
FirstRule_LastMatch(table, frequency, i) ==
  IF i > Len(table) THEN 0
  ELSE LET later == FirstRule_LastMatch(table, frequency, i + 1) IN
       IF later # 0 THEN later
       ELSE IF table[i].StartFreq <= frequency /\ frequency <= table[i].EndFreq
            THEN i ELSE 0

RECURSIVE FirstRule(_, _, _)
FirstRule(table, frequency, i) ==
  IF i > Len(table) THEN 0
  ELSE IF table[i].StartFreq <= frequency /\ frequency <= table[i].EndFreq
       THEN i
       ELSE FirstRule(table, frequency, i + 1)

FallbackBand(frequency) ==
  IF 1800 <= frequency /\ frequency <= 2000 THEN "160m"
  ELSE IF 3500 <= frequency /\ frequency <= 4000 THEN "80m"
  ELSE IF 5330 <= frequency /\ frequency <= 5406 THEN "60m"
  ELSE IF 7000 <= frequency /\ frequency <= 7300 THEN "40m"
  ELSE IF 10100 <= frequency /\ frequency <= 10150 THEN "30m"
  ELSE IF 14000 <= frequency /\ frequency <= 14350 THEN "20m"
  ELSE IF 18068 <= frequency /\ frequency <= 18168 THEN "17m"
  ELSE IF 21000 <= frequency /\ frequency <= 21450 THEN "15m"
  ELSE IF 24890 <= frequency /\ frequency <= 24990 THEN "12m"
  ELSE IF 28000 <= frequency /\ frequency <= 29700 THEN "10m"
  ELSE "UNKNOWN"

determine_mode_and_band_FirstKeyword(table, frequency, comment) ==
  LET i == FirstRule(table, frequency, 1)
      mode0 == IF i = 0 THEN "UNKNOWN" ELSE table[i].Mode
      band0 == IF i = 0 THEN "UNKNOWN" ELSE table[i].Band
      region0 == IF i = 0 THEN "UNKNOWN" ELSE table[i].Region
      all == cw_indicators \cup ssb_indicators \cup digital_indicators
      first == IF HasWord(comment, all)
               THEN UpperWord(comment[CHOOSE n \in 1..Len(comment) :
                      /\ UpperWord(comment[n]) \in all
                      /\ \A h \in 1..(n - 1) : UpperWord(comment[h]) \notin all])
               ELSE ""
      mode1 == IF first \in cw_indicators THEN "CW"
               ELSE IF first \in ssb_indicators THEN "SSB"
               ELSE IF first \in digital_indicators THEN "DIGITAL"
               ELSE mode0
      band1 == IF band0 = "UNKNOWN" THEN FallbackBand(frequency) ELSE band0
  IN  [mode |-> mode1, band |-> band1, region |-> region0]

determine_mode_and_band_RegionFromBand(table, frequency, comment) ==
  LET i == FirstRule(table, frequency, 1)
      mode0 == IF i = 0 THEN "UNKNOWN" ELSE table[i].Mode
      band0 == IF i = 0 THEN "UNKNOWN" ELSE table[i].Band
      region0 == IF i = 0 THEN "UNKNOWN" ELSE table[i].Region
      mode1 == IF HasWord(comment, cw_indicators) THEN "CW"
               ELSE IF HasWord(comment, ssb_indicators) THEN "SSB"
               ELSE IF HasWord(comment, digital_indicators) THEN "DIGITAL"
               ELSE mode0
      band1 == IF band0 = "UNKNOWN" THEN FallbackBand(frequency) ELSE band0
  IN  [mode |-> mode1, band |-> band1,
       region |-> IF i = 0 /\ band1 # "UNKNOWN" THEN "ALL" ELSE region0]

determine_mode_and_band_SsbFirst(table, frequency, comment) ==
  LET i == FirstRule(table, frequency, 1)
      mode0 == IF i = 0 THEN "UNKNOWN" ELSE table[i].Mode
      band0 == IF i = 0 THEN "UNKNOWN" ELSE table[i].Band
      region0 == IF i = 0 THEN "UNKNOWN" ELSE table[i].Region
      mode1 == IF HasWord(comment, ssb_indicators) THEN "SSB"
               ELSE IF HasWord(comment, cw_indicators) THEN "CW"
               ELSE IF HasWord(comment, digital_indicators) THEN "DIGITAL"
               ELSE mode0
      band1 == IF band0 = "UNKNOWN" THEN FallbackBand(frequency) ELSE band0
  IN  [mode |-> mode1, band |-> band1, region |-> region0]

determine_mode_and_band(table, frequency, comment) ==
  LET i == FirstRule(table, frequency, 1)
      mode0 == IF i = 0 THEN "UNKNOWN" ELSE table[i].Mode
      band0 == IF i = 0 THEN "UNKNOWN" ELSE table[i].Band
      region0 == IF i = 0 THEN "UNKNOWN" ELSE table[i].Region
      mode1 == IF HasWord(comment, cw_indicators) THEN "CW"
               ELSE IF HasWord(comment, ssb_indicators) THEN "SSB"
               ELSE IF HasWord(comment, digital_indicators) THEN "DIGITAL"
               ELSE mode0
      band1 == IF band0 = "UNKNOWN" THEN FallbackBand(frequency) ELSE band0
  IN  [mode |-> mode1, band |-> band1, region |-> region0]

(* ---------------- inclusion filter ---------------- *)
RECURSIVE ScanRules_AnyMode(_, _, _, _)
ScanRules_AnyMode(table, frequency, mode, i) ==
  IF i > Len(table) THEN FALSE
  ELSE IF table[i].StartFreq <= frequency /\ frequency <= table[i].EndFreq
       THEN TRUE
       ELSE ScanRules_AnyMode(table, frequency, mode, i + 1)

RECURSIVE ScanRules(_, _, _, _)
ScanRules(table, frequency, mode, i) ==
  IF i > Len(table) THEN FALSE
  ELSE IF table[i].Mode = mode
          /\ table[i].StartFreq <= frequency /\ frequency <= table[i].EndFreq
       THEN TRUE
       ELSE ScanRules(table, frequency, mode, i + 1)

should_include_spot_NoModeCheck(table, frequency, mode) ==
  ScanRules(table, frequency, mode, 1)

should_include_spot(table, frequency, mode) ==
  IF mode \notin {"CW", "SSB"} THEN FALSE
  ELSE ScanRules(table, frequency, mode, 1)


(* ---------------- rounded-frequency correction (web ingestion) --------- *)
RECURSIVE RefineFrequency(_, _, _)
RefineFrequency(frequency, comment, i) ==
  IF i > Len(comment) THEN frequency
  ELSE LET v == DecimalMilli(comment[i]) IN
    IF v = -1 THEN RefineFrequency(frequency, comment, i + 1)
    ELSE IF 1000 <= v /\ v <= 30000
         THEN IF v \div 1000 = frequency \div 1000
              THEN v
              ELSE RefineFrequency(frequency, comment, i + 1)
         ELSE IF v - 1000 * frequency < 1000000
                 /\ 1000 * frequency - v < 1000000
                 /\ v % 1000000 # 0
              THEN v \div 1000
              ELSE RefineFrequency(frequency, comment, i + 1)

CorrectRounded(frequency, comment) ==
  IF frequency % 1000 = 0 /\ frequency >= 1000 /\ comment # << >>
  THEN RefineFrequency(frequency, comment, 1)
  ELSE frequency

(* ---------------- inputs ---------------- *)
TimeSteps == {0, 300, 600}
NoTimeStep == {0}

WebSpots ==
  { [frequency |-> f, dx_call |-> c, comment |-> m, spotter |-> "Unknown"] :
      f \in {14000, 14205}, c \in {"JA1ABC"},
      m \in { <<"CQ", "SSB">>, <<"ft8">>, <<"14.195">>, <<"14.000", "14.195">> } }

(* received text in which no line yields a spot *)
NoSpotLines == { <<"Hello", "ANALYZER">> }

NetLines ==
  { <<"DX", "de", "ON4KST:", "14205.0", "JA1ABC", "CQ", "SSB", "1200Z">>,
    <<"DX", "de", "W1AW:", "7030.0", "K2XYZ", "CW", "QRS", "0300Z">>,
    <<"DX", "de", "ON4KST:", "14205.0", "JA1ABC", "ft8", "1200Z">> }
  \cup NoSpotLines

Batches(S) == { <<s>> : s \in S } \cup { <<s, t>> : s \in S, t \in S }

(* ---------------- pipeline state threaded through one batch ------------ *)
Increment_NoAccumulate(counts, k) == counts @@ (k :> 1)

Increment(counts, k) ==
  IF k \in DOMAIN counts THEN [counts EXCEPT ![k] = @ + 1]
  ELSE counts @@ (k :> 1)

(* history: the log of sightings *)
Sight(seen, key, cls, t, pass, counted, dup, src, raw) ==
  Append(seen, [key |-> key, mode |-> cls.mode, band |-> cls.band,
                region |-> cls.region, t |-> t, pass |-> pass,
                counted |-> counted, dup |-> dup, src |-> src, raw |-> raw])

Admit(st, frequency, dx_call, spotter, cls) ==
  [st EXCEPT !.buffer = Append(@, <<frequency, dx_call, spotter, cls.mode,
                                    cls.band, cls.region>>),
             !.counts = Increment(@, <<frequency, cls.mode>>),
             !.total = @ + 1]

WebSpotStep_RefreshOnDuplicate(st, spot, t, table) ==
  IF ~(spot.frequency > 0 /\ spot.dx_call # "") THEN st
  ELSE
    LET frequency == CorrectRounded(spot.frequency, spot.comment)
        cache_key == <<spot.dx_call, frequency>>
        cls == determine_mode_and_band(table, frequency, spot.comment)
        inc == should_include_spot(table, frequency, cls.mode)
    IN
    IF cache_key \in DOMAIN st.cache /\ t - st.cache[cache_key] < DedupWindow
    THEN [st EXCEPT !.cache = [@ EXCEPT ![cache_key] = t],
                    !.seen = Sight(@, cache_key, cls, t, inc, FALSE, TRUE, "web", spot)]
    ELSE
      LET st1 == [st EXCEPT
                    !.cache = IF cache_key \in DOMAIN @
                              THEN [@ EXCEPT ![cache_key] = t]
                              ELSE @ @@ (cache_key :> t),
                    !.seen = Sight(@, cache_key, cls, t, inc, inc, FALSE, "web", spot)]
      IN IF inc THEN Admit(st1, frequency, spot.dx_call, spot.spotter, cls) ELSE st1

WebSpotStep_FilterFirst(st, spot, t, table) ==
  IF ~(spot.frequency > 0 /\ spot.dx_call # "") THEN st
  ELSE
    LET frequency == CorrectRounded(spot.frequency, spot.comment)
        cache_key == <<spot.dx_call, frequency>>
        cls == determine_mode_and_band(table, frequency, spot.comment)
        inc == should_include_spot(table, frequency, cls.mode)
    IN
    IF ~inc
    THEN [st EXCEPT !.seen = Sight(@, cache_key, cls, t, inc, FALSE, FALSE, "web", spot)]
    ELSE IF cache_key \in DOMAIN st.cache /\ t - st.cache[cache_key] < DedupWindow
    THEN [st EXCEPT !.seen = Sight(@, cache_key, cls, t, inc, FALSE, TRUE, "web", spot)]
    ELSE
      LET st1 == [st EXCEPT
                    !.cache = IF cache_key \in DOMAIN @
                              THEN [@ EXCEPT ![cache_key] = t]
                              ELSE @ @@ (cache_key :> t),
                    !.seen = Sight(@, cache_key, cls, t, inc, inc, FALSE, "web", spot)]
      IN Admit(st1, frequency, spot.dx_call, spot.spotter, cls)

WebSpotStep(st, spot, t, table) ==
  IF ~(spot.frequency > 0 /\ spot.dx_call # "") THEN st
  ELSE
    LET frequency == CorrectRounded(spot.frequency, spot.comment)
        cache_key == <<spot.dx_call, frequency>>
        cls == determine_mode_and_band(table, frequency, spot.comment)
        inc == should_include_spot(table, frequency, cls.mode)
    IN
    IF cache_key \in DOMAIN st.cache /\ t - st.cache[cache_key] < DedupWindow
    THEN [st EXCEPT !.seen = Sight(@, cache_key, cls, t, inc, FALSE, TRUE, "web", spot)]
    ELSE
      LET st1 == [st EXCEPT
                    !.cache = IF cache_key \in DOMAIN @
                              THEN [@ EXCEPT ![cache_key] = t]
                              ELSE @ @@ (cache_key :> t),
                    !.seen = Sight(@, cache_key, cls, t, inc, inc, FALSE, "web", spot)]
      IN IF inc THEN Admit(st1, frequency, spot.dx_call, spot.spotter, cls) ELSE st1

NetLineStep_FilterByRuleMode(st, line, t, table) ==
  LET spot == ParseLine(line) IN
  IF ~(spot.frequency > 0) THEN st
  ELSE
    LET cls == determine_mode_and_band(table, spot.frequency, spot.comment)
        inc == should_include_spot(table, spot.frequency,
                 determine_mode_and_band(table, spot.frequency, << >>).mode)
        st1 == [st EXCEPT !.seen =
                  Sight(@, <<spot.dx_call, spot.frequency>>, cls, t, inc, inc,
                        FALSE, "net", [line |-> line, spot |-> spot])]
    IN IF inc THEN Admit(st1, spot.frequency, spot.dx_call, spot.spotter, cls) ELSE st1

NetLineStep(st, line, t, table) ==
  LET spot == ParseLine(line) IN
  IF ~(spot.frequency > 0) THEN st
  ELSE
    LET cls == determine_mode_and_band(table, spot.frequency, spot.comment)
        inc == should_include_spot(table, spot.frequency, cls.mode)
        st1 == [st EXCEPT !.seen =
                  Sight(@, <<spot.dx_call, spot.frequency>>, cls, t, inc, inc,
                        FALSE, "net", [line |-> line, spot |-> spot])]
    IN IF inc THEN Admit(st1, spot.frequency, spot.dx_call, spot.spotter, cls) ELSE st1

RECURSIVE FoldWeb(_, _, _, _, _)
FoldWeb(st, batch, i, t, table) ==
  IF i > Len(batch) THEN st
  ELSE FoldWeb(WebSpotStep(st, batch[i], t, table), batch, i + 1, t, table)

RECURSIVE FoldNet(_, _, _, _, _)
FoldNet(st, lines, i, t, table) ==
  IF i > Len(lines) THEN st
  ELSE FoldNet(NetLineStep(st, lines[i], t, table), lines, i + 1, t, table)

clean_spot_cache_ExpiryIsCleanupInterval(cache, last_cleanup, t) ==
  IF t - last_cleanup < CleanupInterval
  THEN [cache |-> cache, last |-> last_cleanup]
  ELSE [cache |-> [k \in {x \in DOMAIN cache : ~(t - cache[x] > CleanupInterval)} |-> cache[k]],
        last |-> t]

clean_spot_cache(cache, last_cleanup, t) ==
  IF t - last_cleanup < CleanupInterval
  THEN [cache |-> cache, last |-> last_cleanup]
  ELSE [cache |-> [k \in {x \in DOMAIN cache : ~(t - cache[x] > cache_expiry)} |-> cache[k]],
        last |-> t]

flush_raw_data_buffer_KeepAfterWrite(buffer, file, write_ok) ==
  IF buffer = << >> THEN [buffer |-> buffer, file |-> file]
  ELSE IF write_ok THEN [buffer |-> buffer, file |-> file \o buffer]
  ELSE [buffer |-> buffer, file |-> file]

flush_raw_data_buffer_DropOnError(buffer, file, write_ok) ==
  IF buffer = << >> THEN [buffer |-> buffer, file |-> file]
  ELSE IF write_ok THEN [buffer |-> << >>, file |-> file \o buffer]
  ELSE [buffer |-> << >>, file |-> file]

flush_raw_data_buffer(buffer, file, write_ok) ==
  IF buffer = << >> THEN [buffer |-> buffer, file |-> file]
  ELSE IF write_ok THEN [buffer |-> << >>, file |-> file \o buffer]
  ELSE [buffer |-> buffer, file |-> file]

(* frequency_counts.csv after save_frequency_counts rewrote it; the stamp  *)
(* alternates on every write, so that rewriting the same contents is seen  *)
save_frequency_counts(file, counts, total) ==
  [written |-> TRUE, counts |-> counts, total |-> total, stamp |-> ~file.stamp]

(* ---------------- connection attempts ---------------- *)
TryList(primary) == <<primary>> \o backup_clusters

connect_to_cluster_NoPromotion(primary, k) ==
  LET n == IF k = 0 THEN Len(TryList(primary)) ELSE k IN
  [ok |-> k # 0,
   host |-> primary,
   attempts |-> [i \in 1..n |-> [host |-> TryList(primary)[i], ok |-> (i = k)]]]

(* connect_to_cluster when the first endpoint that accepts is TryList[k];  *)
(* k = 0: every endpoint fails                                             *)
connect_to_cluster(primary, k) ==
  LET n == IF k = 0 THEN Len(TryList(primary)) ELSE k IN
  [ok |-> k # 0,
   host |-> IF k = 0 THEN primary ELSE TryList(primary)[k],
   attempts |-> [i \in 1..n |-> [host |-> TryList(primary)[i], ok |-> (i = k)]]]

Backoff_NoCap(delay) == delay * 2

Backoff_Tripling(delay) == Min(delay * 3, max_reconnect_delay)

Backoff(delay) == Min(delay * 2, max_reconnect_delay)


(* ======================= state ======================= *)
VARIABLES
  pc,                          \* "init", "net", "web", "fetch", "process", "done"
  use_web_source,
  band_configs,
  stop_reason,                 \* why run() returned
  cluster_host,                \* current primary endpoint
  current_backup_index,        \* 0-based index into backup_clusters
  consecutive_disconnections,
  reconnect_delay,
  connected,                   \* self.socket is a logged-in connection
  frequency_counts,
  total_spots,
  raw_data_buffer,
  raw_file,                    \* records written to raw_spots.csv
  processed_file,              \* last snapshot written by save_frequency_counts
  spot_cache,
  last_cache_cleanup,
  last_poll_time,
  now,
  url_i,                       \* position of fetch_web_data in its URL list
  spots,                       \* result of fetch_web_data
  last_keepalive,              \* locals of process_cluster_data
  last_data_time,
  \* ---- observations of the last step (history) ----
  event,
  attempts,                    \* _try_connect calls of the last step, in order
  slept,                       \* time.sleep(reconnect_delay) of the last step, 0 if none
  chain,                       \* the last sleep and what happened since
  clean,                       \* the disconnections counted so far were empty reads in a row
                               \* on the endpoint in use
  seen,                        \* every spot that reached dedup / classification, in order
  keepalive,                   \* send_keepalive calls of the last step, in order
  fetched,                     \* URLs fetched in the current poll cycle, in order
  hit,                         \* [url, spots] of the fetch that yielded spots, or << >>
  faults,                      \* connection faults so far (exploration bound)
  probe,                       \* one application of should_include_spot: arguments, result
  classified,                  \* one application of determine_mode_and_band
  noskimmer,                   \* args.noskimmer
  config_file,                 \* the file named by args.config
  login,                       \* the _try_connect call in progress or last returned
  rounded,                     \* one application of the rounded-frequency correction
  in_flight,                   \* the rest of a line of which a read returned the start
  generic_parser,              \* a GenericDXClusterParser and the document fed to it
  dxwatch_parser               \* a DXWatchParser and the document fed to it

vars == << pc, use_web_source, band_configs, stop_reason, cluster_host,
           current_backup_index, consecutive_disconnections, reconnect_delay,
           connected, frequency_counts, total_spots, raw_data_buffer, raw_file,
           processed_file, spot_cache, last_cache_cleanup, last_poll_time, now,
           url_i, spots, last_keepalive, last_data_time, event, attempts, slept,
           chain, clean, keepalive, seen, fetched, hit, faults, probe,
           classified, noskimmer, config_file, login, rounded, in_flight,
           generic_parser, dxwatch_parser >>

netVars == << cluster_host, current_backup_index, consecutive_disconnections,
              reconnect_delay, connected >>
statVars == << frequency_counts, total_spots, raw_data_buffer, raw_file >>
webVars == << spot_cache, last_cache_cleanup, last_poll_time, url_i, spots,
              fetched, hit >>
netHist == << attempts, slept, chain, clean >>
timers == << last_keepalive, last_data_time, keepalive >>

NoChain == [last |-> 0, same |-> TRUE, reset |-> FALSE]
NoProbe ==
  [table |-> << >>, frequency |-> 0, mode |-> "", applied |-> FALSE, result |-> FALSE]
NoClassified ==
  [table |-> << >>, frequency |-> 0, comment |-> << >>, applied |-> FALSE,
   mode |-> "", band |-> "", region |-> ""]
NoLogin ==
  [phase |-> "idle", call |-> "", host |-> "", elapsed |-> 0, sent |-> << >>,
   login_successful |-> FALSE, established |-> FALSE, raised |-> FALSE,
   result |-> FALSE, last |-> ""]
NoSnapshot == [written |-> FALSE, counts |-> << >>, total |-> 0, stamp |-> FALSE]

parsers == << rounded, generic_parser, dxwatch_parser >>

NoRounded == [frequency |-> 0, comment |-> << >>, applied |-> FALSE, result |-> 0]

(* GenericDXClusterParser.__init__, nothing fed yet *)
NoGeneric ==
  [doc |-> << >>, pos |-> 0, in_table |-> FALSE, in_row |-> FALSE,
   current_row_data |-> << >>, column_data |-> << >>, all_table_data |-> << >>,
   spots |-> << >>]

(* DXWatchParser.__init__, nothing fed yet *)
NoDxwatch ==
  [doc |-> << >>, pos |-> 0, in_spots_div |-> FALSE, in_spot_div |-> FALSE,
   current_spot |-> [keys |-> {}, frequency |-> 0, dx_call |-> << >>],
   current_tag |-> "", current_data |-> << >>,
   spots |-> << >>]

IdleParsers ==
  /\ rounded = NoRounded
  /\ in_flight = << >>
  /\ generic_parser = NoGeneric
  /\ dxwatch_parser = NoDxwatch

InitCommon ==
  /\ pc = "init"
  /\ use_web_source \in BOOLEAN
  /\ band_configs = << >>
  /\ stop_reason = ""
  /\ cluster_host = DefaultClusterHost
  /\ current_backup_index = 0
  /\ consecutive_disconnections = 0
  /\ reconnect_delay = InitialReconnectDelay
  /\ connected = FALSE
  /\ frequency_counts = << >>
  /\ total_spots = 0
  /\ raw_data_buffer = << >>
  /\ raw_file = << >>
  /\ processed_file = NoSnapshot
  /\ spot_cache = << >>
  /\ last_cache_cleanup = StartTime
  /\ last_poll_time = 0
  /\ now = StartTime
  /\ url_i = 0
  /\ spots = << >>
  /\ last_keepalive = 0
  /\ last_data_time = 0
  /\ keepalive = << >>
  /\ event = "init"
  /\ attempts = << >>
  /\ slept = 0
  /\ chain = NoChain
  /\ clean = TRUE
  /\ seen = << >>
  /\ fetched = << >>
  /\ hit = << >>
  /\ faults = 0

Init ==
  /\ InitCommon
  /\ config_file \in ConfigFiles
  /\ probe = NoProbe
  /\ classified = NoClassified
  /\ noskimmer = FALSE
  /\ login = NoLogin
  /\ IdleParsers

InitNet == Init /\ ~use_web_source /\ config_file \in {MissingFile, ConfigFile(TableA)}

(* ---------------- run(): the finally block ---------------- *)
Shutdown(reason, write_ok, file) ==
  LET fl == flush_raw_data_buffer(raw_data_buffer, file, write_ok) IN
  /\ pc' = "done"
  /\ stop_reason' = reason
  /\ connected' = FALSE
  /\ raw_data_buffer' = fl.buffer
  /\ raw_file' = fl.file
  /\ processed_file' =
       save_frequency_counts(processed_file, frequency_counts, total_spots)
  /\ event' = reason
  /\ slept' = 0
  /\ UNCHANGED << use_web_source, cluster_host,
                  current_backup_index, consecutive_disconnections,
                  reconnect_delay, frequency_counts, total_spots, now >>
  /\ UNCHANGED webVars
  /\ UNCHANGED << chain, clean, seen >>
  /\ UNCHANGED timers

(* ---------------- run(): start-up ---------------- *)
(* load_band_config returns False *)
RunConfigError ==
  /\ pc = "init"
  /\ ~load_band_config(config_file).ok
  /\ band_configs' = load_band_config(config_file).band_configs
  /\ pc' = "done"
  /\ stop_reason' = "config_error"
  /\ event' = "config_error"
  /\ UNCHANGED << use_web_source, now, processed_file, seen >>
  /\ UNCHANGED netVars
  /\ UNCHANGED statVars
  /\ UNCHANGED webVars
  /\ UNCHANGED netHist
  /\ UNCHANGED timers

RunWeb_OpensSocket ==
  /\ pc = "init"
  /\ use_web_source = TRUE
  /\ load_band_config(config_file).ok
  /\ band_configs' = load_band_config(config_file).band_configs
  /\ raw_file' = setup_output_files
  /\ pc' = "web"
  /\ event' = "start_web"
  /\ connected' = TRUE
  /\ attempts' = connect_to_cluster(cluster_host, 1).attempts
  /\ UNCHANGED << use_web_source, stop_reason, now, processed_file, seen,
                  cluster_host, current_backup_index,
                  consecutive_disconnections, reconnect_delay,
                  slept, chain, clean >>
  /\ UNCHANGED << frequency_counts, total_spots, raw_data_buffer >>
  /\ UNCHANGED webVars
  /\ UNCHANGED timers

RunWeb ==
  /\ pc = "init"
  /\ use_web_source = TRUE
  /\ load_band_config(config_file).ok
  /\ band_configs' = load_band_config(config_file).band_configs
  /\ raw_file' = setup_output_files
  /\ pc' = "web"
  /\ event' = "start_web"
  /\ UNCHANGED << use_web_source, stop_reason, now, processed_file, seen >>
  /\ UNCHANGED netVars
  /\ UNCHANGED << frequency_counts, total_spots, raw_data_buffer >>
  /\ UNCHANGED webVars
  /\ UNCHANGED netHist
  /\ UNCHANGED timers

RunNetConnected ==
  /\ pc = "init"
  /\ ~use_web_source
  /\ load_band_config(config_file).ok
  /\ band_configs' = load_band_config(config_file).band_configs
  /\ raw_file' = setup_output_files
  /\ \E k \in 1..Len(TryList(cluster_host)) :
       LET c == connect_to_cluster(cluster_host, k) IN
       /\ cluster_host' = c.host
       /\ attempts' = c.attempts
  /\ connected' = TRUE
  /\ reconnect_delay' = InitialReconnectDelay
  /\ pc' = "net"
  /\ event' = "start_net"
  /\ last_keepalive' = now
  /\ last_data_time' = now
  /\ keepalive' = << >>
  /\ UNCHANGED << use_web_source, stop_reason, now, processed_file, seen,
                  current_backup_index, consecutive_disconnections,
                  slept, chain, clean >>
  /\ UNCHANGED << frequency_counts, total_spots, raw_data_buffer >>
  /\ UNCHANGED webVars

(* every endpoint fails on the first connect_to_cluster: run returns False *)
RunNetConnectFailed ==
  /\ pc = "init"
  /\ ~use_web_source
  /\ load_band_config(config_file).ok
  /\ band_configs' = load_band_config(config_file).band_configs
  /\ attempts' = connect_to_cluster(cluster_host, 0).attempts
  /\ Shutdown("connect_failed", TRUE, setup_output_files)

(* ======================= network loop ======================= *)
Pipeline ==
  [cache |-> spot_cache, counts |-> frequency_counts, total |-> total_spots,
   buffer |-> raw_data_buffer, seen |-> seen]

(* lines 998-1011: the end of an iteration that was not cut short *)
LoopTail(st) ==
  \E write_ok \in IF Len(st.buffer) >= buffer_size THEN BOOLEAN ELSE {TRUE} :
    LET fl == IF Len(st.buffer) >= buffer_size
              THEN flush_raw_data_buffer(st.buffer, raw_file, write_ok)
              ELSE [buffer |-> st.buffer, file |-> raw_file]
    IN /\ raw_data_buffer' = fl.buffer
       /\ raw_file' = fl.file
       /\ frequency_counts' = st.counts
       /\ total_spots' = st.total
       /\ processed_file' =
            IF st.total % SnapshotEvery = 0 /\ st.total > 0
            THEN save_frequency_counts(processed_file, st.counts, st.total)
            ELSE processed_file

NetCut(delay) ==
  /\ reconnect_delay' = delay
  /\ UNCHANGED statVars
  /\ UNCHANGED processed_file

Slept(amount, reset, host) ==
  /\ slept' = amount
  /\ chain' = [last |-> amount, same |-> (host = cluster_host), reset |-> reset]

NotSlept(reset, host) ==
  /\ slept' = 0
  /\ chain' = [chain EXCEPT !.same = @ /\ (host = cluster_host),
                            !.reset = @ \/ reset]

keepalive_commands == << "sh/dx", "sh/u", "", "\r" >>

(* send_keepalive called at time t, idle seconds after the last data: the *)
(* command of the rotation, nothing being sent when it is empty            *)
send_keepalive(where, t, idle, ok) ==
  [where |-> where, command |-> keepalive_commands[((t \div 30) % 4) + 1],
   idle |-> idle, ok |-> ok]

(* a send can only fail when something is sent *)
SendOutcomes(t) ==
  IF keepalive_commands[((t \div 30) % 4) + 1] = "" THEN {TRUE} ELSE BOOLEAN

(* an iteration entered at time t that leaves last_data_time at data_time  *)
(* and calls send_keepalive in its idle branch as idle_sent tells;         *)
(* KeepaliveCheck is the check at the top of the iteration, lines 839-843  *)
Iteration(t, data_time, idle_sent) ==
  LET KeepaliveCheck ==
        IF t - last_keepalive > keepalive_interval
        THEN { [last |-> IF ok THEN t ELSE last_keepalive,
                sent |-> << send_keepalive("interval", t, t - last_data_time, ok) >>] :
               ok \in SendOutcomes(t) }
        ELSE { [last |-> last_keepalive, sent |-> << >>] }
  IN
  \E top \in KeepaliveCheck :
    /\ last_keepalive' = top.last
    /\ keepalive' = top.sent \o idle_sent
    /\ last_data_time' = data_time

NetFrame ==
  /\ UNCHANGED << pc, use_web_source, band_configs, stop_reason >>
  /\ UNCHANGED webVars

(* select: readable, recv returns data *)
NetRead(batches, steps) ==
  /\ pc = "net"
  /\ connected
  /\ \E dt \in steps, lines \in batches :
       /\ now + dt <= StartTime + MaxElapsed
       /\ Len(seen) + Len(lines) <= MaxSpots
       /\ now' = now + dt
       /\ Iteration(now + dt, now + dt, << >>)
       /\ LET st == FoldNet(Pipeline, lines, 1, now + dt, band_configs) IN
          /\ LoopTail(st)
          /\ seen' = st.seen
  /\ reconnect_delay' = InitialReconnectDelay
  /\ slept' = 0
  /\ chain' = NoChain
  /\ attempts' = << >>
  /\ clean' = (consecutive_disconnections = 0)
  /\ event' = "data"
  /\ UNCHANGED << cluster_host, current_backup_index,
                  consecutive_disconnections, connected >>
  /\ NetFrame

(* select: readable, recv returns '' ; fewer than 10 disconnections so far *)
NetEmptyReadReconnect ==
  /\ pc = "net"
  /\ consecutive_disconnections + 1 < FailoverThreshold
  /\ consecutive_disconnections' = consecutive_disconnections + 1
  /\ \E k \in 0..Len(TryList(cluster_host)) :
       LET c == connect_to_cluster(cluster_host, k) IN
       /\ attempts' = c.attempts
       /\ cluster_host' = c.host
       /\ connected' = c.ok
       /\ Slept(reconnect_delay, c.ok, c.host)
       /\ IF c.ok
          THEN reconnect_delay' = InitialReconnectDelay /\ LoopTail(Pipeline)
          ELSE NetCut(Backoff(reconnect_delay))
  /\ clean' = (clean /\ connected' /\ cluster_host' = cluster_host)
  /\ event' = "empty_read"
  /\ Iteration(now, last_data_time, << >>)
  /\ UNCHANGED << current_backup_index, now, seen >>
  /\ NetFrame

(* the 10th disconnection: the forced switch to backup_clusters[index] works *)
NetFailoverDirect ==
  /\ pc = "net"
  /\ consecutive_disconnections + 1 >= FailoverThreshold
  /\ consecutive_disconnections' = 0
  /\ current_backup_index' = (current_backup_index + 1) % Len(backup_clusters)
  /\ LET new_host == backup_clusters[current_backup_index' + 1] IN
       /\ attempts' = << [host |-> new_host, ok |-> TRUE] >>
       /\ cluster_host' = new_host
       /\ NotSlept(FALSE, new_host)
  /\ connected' = TRUE
  /\ NetCut(reconnect_delay)
  /\ clean' = TRUE
  /\ event' = "failover"
  /\ Iteration(now, last_data_time, << >>)
  /\ UNCHANGED << now, seen >>
  /\ NetFrame

(* the 10th disconnection: the forced switch fails, connect_to_cluster runs *)
NetFailoverFallback ==
  /\ pc = "net"
  /\ consecutive_disconnections + 1 >= FailoverThreshold
  /\ consecutive_disconnections' = 0
  /\ current_backup_index' = (current_backup_index + 1) % Len(backup_clusters)
  /\ \E k \in 0..Len(TryList(cluster_host)) :
       LET new_host == backup_clusters[current_backup_index' + 1]
           c == connect_to_cluster(cluster_host, k)
       IN /\ attempts' = << [host |-> new_host, ok |-> FALSE] >> \o c.attempts
          /\ cluster_host' = c.host
          /\ connected' = c.ok
          /\ NotSlept(c.ok, c.host)
          /\ IF c.ok
             THEN reconnect_delay' = InitialReconnectDelay /\ LoopTail(Pipeline)
             ELSE NetCut(reconnect_delay)
  /\ clean' = TRUE
  /\ event' = "failover"
  /\ Iteration(now, last_data_time, << >>)
  /\ UNCHANGED << now, seen >>
  /\ NetFrame

(* sleep, double the delay, connect_to_cluster, continue *)
ReconnectAndContinue(ev) ==
  /\ pc = "net"
  /\ \E k \in 0..Len(TryList(cluster_host)) :
       LET c == connect_to_cluster(cluster_host, k) IN
       /\ attempts' = c.attempts
       /\ cluster_host' = c.host
       /\ connected' = c.ok
       /\ Slept(reconnect_delay, FALSE, c.host)
  /\ NetCut(Backoff(reconnect_delay))
  /\ clean' = (consecutive_disconnections = 0)
  /\ event' = ev
  /\ UNCHANGED << current_backup_index, consecutive_disconnections, seen >>
  /\ NetFrame

(* lines 974-986: select not readable, no data for over 120 s and          *)
(* send_keepalive fails; the idle timer restarts if the reconnect succeeds *)
NetKeepaliveFailed(steps) ==
  /\ \E dt \in steps :
       /\ now + dt <= StartTime + MaxElapsed
       /\ (now + dt) - last_data_time > IdleThreshold
       /\ FALSE \in SendOutcomes(now + dt)
       /\ now' = now + dt
       /\ ReconnectAndContinue("keepalive_failed")
       /\ Iteration(now + dt,
                    IF connected' THEN now + dt ELSE last_data_time,
                    << send_keepalive("idle", now + dt,
                                      (now + dt) - last_data_time, FALSE) >>)

(* socket.error / select.error inside the read *)
NetSocketError ==
  /\ ReconnectAndContinue("socket_error")
  /\ Iteration(now, last_data_time, << >>)
  /\ UNCHANGED now

(* lines 974-989: select not readable; after over 120 s without data       *)
(* send_keepalive is called, returns True, and the idle timer restarts     *)
NetIdle(steps) ==
  /\ pc = "net"
  /\ \E dt \in steps :
       /\ now + dt <= StartTime + MaxElapsed
       /\ now' = now + dt
       /\ IF (now + dt) - last_data_time > IdleThreshold
          THEN Iteration(now + dt, now + dt,
                         << send_keepalive("idle", now + dt,
                                           (now + dt) - last_data_time, TRUE) >>)
          ELSE Iteration(now + dt, last_data_time, << >>)
  /\ NotSlept(FALSE, cluster_host)
  /\ attempts' = << >>
  /\ event' = "idle"
  /\ UNCHANGED << seen, clean, processed_file >>
  /\ UNCHANGED netVars
  /\ UNCHANGED statVars
  /\ NetFrame

(* the outer except handlers: sleep and double the delay *)
NetLoopError ==
  /\ pc = "net"
  /\ Slept(reconnect_delay, FALSE, cluster_host)
  /\ NetCut(Backoff(reconnect_delay))
  /\ attempts' = << >>
  /\ clean' = (consecutive_disconnections = 0)
  /\ event' = "loop_error"
  /\ \/ Iteration(now, last_data_time, << >>)
     \/ UNCHANGED timers
  /\ UNCHANGED << cluster_host, current_backup_index,
                  consecutive_disconnections, connected, now, seen >>
  /\ NetFrame

(* time or size budget exceeded at the top of an iteration, then finally *)
BudgetReached ==
  /\ pc \in {"net", "web"}
  /\ \E write_ok \in IF raw_data_buffer = << >> THEN {TRUE} ELSE BOOLEAN :
       Shutdown("budget", write_ok, raw_file)
  /\ attempts' = << >>
  /\ UNCHANGED band_configs

(* KeyboardInterrupt, then finally *)
Interrupted ==
  /\ pc \in {"net", "web", "fetch", "process"}
  /\ \E write_ok \in IF raw_data_buffer = << >> THEN {TRUE} ELSE BOOLEAN :
       Shutdown("interrupt", write_ok, raw_file)
  /\ attempts' = << >>
  /\ UNCHANGED band_configs

(* ======================= web polling loop ======================= *)
FetchStep_NoStop(i, result) ==
  IF i < NumUrls
  THEN [return |-> FALSE, spots |-> << >>, next |-> i + 1]
  ELSE [return |-> TRUE,
        spots |-> IF result # "error" THEN result ELSE << >>, next |-> 0]

(* one pass of the for loop of fetch_web_data over URL number i: result is *)
(* "error" (the fetch raised), << >> (no spots extracted) or the spots     *)
FetchStep(i, result) ==
  IF result # "error" /\ result # << >>
  THEN [return |-> TRUE, spots |-> result, next |-> 0]
  ELSE IF i < NumUrls
       THEN [return |-> FALSE, spots |-> << >>, next |-> i + 1]
       ELSE [return |-> TRUE, spots |-> << >>, next |-> 0]

WebFrame ==
  /\ UNCHANGED << use_web_source, band_configs, stop_reason >>
  /\ UNCHANGED netVars
  /\ UNCHANGED netHist
  /\ UNCHANGED timers

(* top of the loop when a poll is due: fetch_web_data starts *)
WebPoll ==
  /\ pc = "web"
  /\ \E dt \in TimeSteps :
       /\ now + dt <= StartTime + MaxElapsed
       /\ (now + dt) - last_poll_time >= poll_interval
       /\ now' = now + dt
  /\ pc' = "fetch"
  /\ url_i' = 1
  /\ spots' = << >>
  /\ fetched' = << >>
  /\ hit' = << >>
  /\ event' = "poll"
  /\ UNCHANGED << spot_cache, last_cache_cleanup, last_poll_time,
                  processed_file, seen >>
  /\ UNCHANGED statVars
  /\ WebFrame

FetchUrl(result) ==
  LET r == FetchStep(url_i, result) IN
  /\ pc = "fetch"
  /\ fetched' = Append(fetched, url_i)
  /\ hit' = IF result # "error" /\ result # << >>
            THEN [url |-> url_i, spots |-> result] ELSE hit
  /\ url_i' = r.next
  /\ spots' = r.spots
  /\ pc' = IF r.return THEN "process" ELSE "fetch"
  /\ UNCHANGED << spot_cache, last_cache_cleanup, last_poll_time, now,
                  processed_file, seen >>
  /\ UNCHANGED statVars
  /\ WebFrame

FetchUrlError == FetchUrl("error") /\ event' = "fetch_error"

FetchUrlEmpty == FetchUrl(<< >>) /\ event' = "fetch_empty"

FetchUrlSpots ==
  /\ \E batch \in Batches(WebSpots) :
       /\ Len(seen) + Len(batch) <= MaxSpots
       /\ FetchUrl(batch)
  /\ event' = "fetch_spots"

(* process_web_data on one batch *)
process_web_data(st, batch, last_cleanup, t, table) ==
  IF batch = << >> THEN [st |-> st, last |-> last_cleanup]
  ELSE LET cc == clean_spot_cache(st.cache, last_cleanup, t) IN
       [st |-> FoldWeb([st EXCEPT !.cache = cc.cache], batch, 1, t, table),
        last |-> cc.last]

(* the rest of the iteration after fetch_web_data returned *)
WebProcess ==
  /\ pc = "process"
  /\ LET r == process_web_data(Pipeline, spots, last_cache_cleanup, now, band_configs) IN
       /\ spot_cache' = r.st.cache
       /\ last_cache_cleanup' = r.last
       /\ seen' = r.st.seen
       /\ LoopTail(r.st)
  /\ last_poll_time' = now
  /\ pc' = "web"
  /\ spots' = << >>
  /\ fetched' = << >>
  /\ hit' = << >>
  /\ event' = "process"
  /\ UNCHANGED << url_i, now >>
  /\ WebFrame

(* ======================= specifications ======================= *)
probes == << probe, classified, noskimmer, login >>

Free(A) ==
  /\ A
  /\ UNCHANGED << faults, config_file, in_flight >>
  /\ UNCHANGED probes
  /\ UNCHANGED parsers

Limited(A) ==
  /\ faults < MaxFaults
  /\ A
  /\ faults' = faults + 1
  /\ UNCHANGED << config_file, in_flight >>
  /\ UNCHANGED probes
  /\ UNCHANGED parsers

(* the connection state machine of network mode; received text carries no  *)
(* spot lines                                                              *)
NextNet ==
  \/ Free(RunConfigError)
  \/ Free(RunNetConnected)
  \/ Free(RunNetConnectFailed)
  \/ Free(NetRead(Batches(NoSpotLines), NoTimeStep))
  \/ Free(NetEmptyReadReconnect)
  \/ Free(NetFailoverDirect)
  \/ Free(NetFailoverFallback)
  \/ Free(NetSocketError)
  \/ Free(NetIdle(NoTimeStep))
  \/ Free(NetLoopError)
  \/ Free(BudgetReached)
  \/ Free(Interrupted)

Spec == InitNet /\ [][NextNet]_vars

(* spot ingestion in both acquisition modes; at most MaxFaults connection  *)
(* faults in a run                                                         *)
NextIngest ==
  \/ Free(RunConfigError)
  \/ Free(RunWeb)
  \/ Free(RunNetConnected)
  \/ Free(RunNetConnectFailed)
  \/ Free(NetRead(Batches(NetLines), TimeSteps))
  \/ Limited(NetEmptyReadReconnect)
  \/ Limited(NetSocketError)
  \/ Limited(NetLoopError)
  \/ Free(NetIdle(NoTimeStep))
  \/ Free(BudgetReached)
  \/ Free(Interrupted)
  \/ Free(WebPoll)
  \/ Free(FetchUrlError)
  \/ Free(FetchUrlEmpty)
  \/ Free(FetchUrlSpots)
  \/ Free(WebProcess)

SpecIngest == Init /\ [][NextIngest]_vars


(* the program itself does not move while a function is applied *)
ProbeFrame ==
  /\ UNCHANGED << pc, use_web_source, band_configs, stop_reason, processed_file,
                  now, event, seen, faults, config_file, in_flight >>
  /\ UNCHANGED netVars
  /\ UNCHANGED statVars
  /\ UNCHANGED webVars
  /\ UNCHANGED netHist
  /\ UNCHANGED timers

(* a run in progress shortly before its 1000th admitted spot *)
EarlierRecord == <<14205, "JA1ABC", "ON4KST", "SSB", "20m", "ALL">>

InitSnapshot ==
  /\ use_web_source \in BOOLEAN
  /\ pc = IF use_web_source THEN "web" ELSE "net"
  /\ band_configs = TableA
  /\ stop_reason = ""
  /\ cluster_host = DefaultClusterHost
  /\ current_backup_index = 0
  /\ consecutive_disconnections = 0
  /\ reconnect_delay = InitialReconnectDelay
  /\ connected = ~use_web_source
  /\ total_spots \in {SnapshotEvery - 2, SnapshotEvery - 1}
  /\ frequency_counts = (<<14205, "SSB">> :> total_spots)
  /\ raw_data_buffer =
       [n \in 1..(total_spots % buffer_size) |-> EarlierRecord]
  /\ raw_file =
       setup_output_files \o
       [n \in 1..(total_spots - (total_spots % buffer_size)) |-> EarlierRecord]
  /\ processed_file = NoSnapshot
  /\ spot_cache = IF use_web_source
                  THEN (<<"JA1ABC", 14205>> :> StartTime - DedupWindow)
                  ELSE << >>
  /\ last_cache_cleanup = StartTime
  /\ last_poll_time = IF use_web_source THEN StartTime - DedupWindow ELSE 0
  /\ now = StartTime
  /\ url_i = 0
  /\ spots = << >>
  /\ last_keepalive = IF use_web_source THEN 0 ELSE StartTime
  /\ last_data_time = IF use_web_source THEN 0 ELSE StartTime
  /\ keepalive = << >>
  /\ event = IF use_web_source THEN "process" ELSE "data"
  /\ attempts = << >>
  /\ slept = 0
  /\ chain = NoChain
  /\ clean = TRUE
  /\ seen = << >>
  /\ fetched = << >>
  /\ hit = << >>
  /\ faults = 0
  /\ probe = NoProbe
  /\ classified = NoClassified
  /\ noskimmer = FALSE
  /\ config_file = ConfigFile(TableA)
  /\ login = NoLogin
  /\ IdleParsers

NextSnapshot ==
  \/ Free(NetRead(Batches(NetLines), NoTimeStep))
  \/ Limited(NetEmptyReadReconnect)
  \/ Free(NetIdle(NoTimeStep))
  \/ Free(BudgetReached)
  \/ Free(Interrupted)
  \/ Free(WebPoll)
  \/ Free(FetchUrlError)
  \/ Free(FetchUrlEmpty)
  \/ Free(FetchUrlSpots)
  \/ Free(WebProcess)

SpecSnapshot == InitSnapshot /\ [][NextSnapshot]_vars

(* the rounded-frequency correction of process_web_data applied to        *)
(* arguments drawn from bounded sets                                       *)
InitRefine ==
  /\ InitCommon
  /\ use_web_source = TRUE
  /\ probe = NoProbe
  /\ classified = NoClassified
  /\ noskimmer = FALSE
  /\ config_file = ConfigFile(TableA)
  /\ login = NoLogin
  /\ LET RefineTokens ==
           {"14.195", "14.000", "14.500", "13999.0", "14195.0", "7.030", "CQ"}
         RefineComments ==
           { << >> } \cup { <<a>> : a \in RefineTokens }
                     \cup { <<a, b>> : a \in RefineTokens, b \in RefineTokens }
     IN rounded \in [frequency : {7000, 14000, 14205}, comment : RefineComments,
                     applied : {FALSE}, result : {0}]
  /\ in_flight = << >>
  /\ generic_parser = NoGeneric
  /\ dxwatch_parser = NoDxwatch

ApplyRefine ==
  /\ ~rounded.applied
  /\ rounded' = [rounded EXCEPT
                   !.applied = TRUE,
                   !.result = CorrectRounded(rounded.frequency, rounded.comment)]
  /\ UNCHANGED probes
  /\ UNCHANGED << generic_parser, dxwatch_parser >>
  /\ ProbeFrame

SpecRefine == InitRefine /\ [][ApplyRefine]_vars

(* ---------------- HTML extractors ---------------- *)
(* what HTMLParser.feed hands to the handlers *)
StartTag(tag, id, class) ==
  [kind |-> "start", tag |-> tag, id |-> id, class |-> class, data |-> << >>]
EndTag(tag) ==
  [kind |-> "end", tag |-> tag, id |-> "", class |-> "", data |-> << >>]
Text(data) ==
  [kind |-> "data", tag |-> "", id |-> "", class |-> "", data |-> data]

RECURSIVE Flatten(_)
Flatten(row) ==
  IF row = << >> THEN << >> ELSE Head(row) \o Flatten(Tail(row))

NoRowSpot ==
  [dx_call |-> "", frequency |-> 0, comment |-> << >>, spotter |-> "", band |-> ""]

(* one pass of the loop of process_table_data over a row, a sequence of    *)
(* cells, each the words of its text: the frequency is the first decimal   *)
(* number, else the first run of 4-5 digits when it is in 1800..29700 (the *)
(* 'MHz' expression tried after that matches nothing the first one did     *)
(* not); a first callsign match of digits only abandons the row            *)
RowSpot(row) ==
  LET row_text == Flatten(row)
      (* the first match of \d{1,2}\.\d{1,3} in a token, times 1000 when   *)
      (* it is between 1 and 30, in kHz; -1 when there is none             *)
      TableDecimalKhz(w) ==
        CASE w = "14.195" -> 14195
          [] w = "7.030" -> 7030
          [] w = "21.300" -> 21300
          [] w = "14.000" -> 14000
          [] w = "14.500" -> 14500
          [] w = "14205.0" -> 5000
          [] w = "7030.0" -> 30000
          [] w = "13999.0" -> 99
          [] w = "14195.0" -> 95
          [] OTHER -> -1
      (* the first match of \d{4,5} in a token; -1 when there is none *)
      TableDigits(w) ==
        CASE w = "14195" -> 14195
          [] w = "1200Z" -> 1200
          [] w = "0300Z" -> 300
          [] OTHER -> -1
      (* the first match in a token of [A-Z0-9]{1,3}/?[A-Z0-9]{1,2}[0-9]   *)
      (* [A-Z0-9]{1,3}(/[A-Z0-9]+)?, in upper case; "" when there is none  *)
      TableCallMatch(w) ==
        CASE w \in {"JA1ABC", "ON4KST", "DL0WU", "14195", "1200Z", "0300Z"} -> w
          [] OTHER -> ""
      TableBand(freq) ==
        IF 1800 <= freq /\ freq <= 2000 THEN "160m"
        ELSE IF 3500 <= freq /\ freq <= 4000 THEN "80m"
        ELSE IF 5350 <= freq /\ freq <= 5370 THEN "60m"
        ELSE IF 7000 <= freq /\ freq <= 7300 THEN "40m"
        ELSE IF 10100 <= freq /\ freq <= 10150 THEN "30m"
        ELSE IF 14000 <= freq /\ freq <= 14350 THEN "20m"
        ELSE IF 18068 <= freq /\ freq <= 18168 THEN "17m"
        ELSE IF 21000 <= freq /\ freq <= 21450 THEN "15m"
        ELSE IF 24890 <= freq /\ freq <= 24990 THEN "12m"
        ELSE IF 28000 <= freq /\ freq <= 29700 THEN "10m"
        ELSE IF 50000 <= freq /\ freq <= 54000 THEN "6m"
        ELSE IF 144000 <= freq /\ freq <= 148000 THEN "2m"
        ELSE "UNKNOWN"
      d == FirstIndex({ x \in 1..Len(row_text) : TableDecimalKhz(row_text[x]) # -1 })
      n == FirstIndex({ x \in 1..Len(row_text) : TableDigits(row_text[x]) # -1 })
      c == FirstIndex({ x \in 1..Len(row_text) : TableCallMatch(row_text[x]) # "" })
      freq == IF d # 0 THEN TableDecimalKhz(row_text[d])
              ELSE IF n # 0 /\ 1800 <= TableDigits(row_text[n])
                            /\ TableDigits(row_text[n]) <= 29700
                   THEN TableDigits(row_text[n])
                   ELSE 0
  IN IF c = 0 \/ TableCallMatch(row_text[c]) \in DigitTokens \/ freq = 0
     THEN NoRowSpot
     ELSE [dx_call |-> TableCallMatch(row_text[c]),
           frequency |-> CorrectRounded(freq, row_text),
           comment |-> IF Len(row) > 2 THEN row[Len(row)] ELSE << >>,
           spotter |-> "Unknown",
           band |-> TableBand(freq)]

RECURSIVE process_table_data(_, _)
process_table_data(all_table_data, found) ==
  IF all_table_data = << >> THEN found
  ELSE process_table_data(Tail(all_table_data),
         IF RowSpot(Head(all_table_data)) = NoRowSpot THEN found
         ELSE Append(found, RowSpot(Head(all_table_data))))

(* documents for the table extractor, each with the rows that lie between  *)
(* a table start tag and its matching end tag, in document order           *)
TableDocuments ==
  LET RowA == << <<"14.195">>, <<"JA1ABC">>, <<"CQ">> >>
      RowB == << <<"7.030">>, <<"ON4KST">>, <<"CW">> >>
      RowC == << <<"21.300">>, <<"DL0WU">>, <<"SSB">> >>
      RowD == << <<"14195">>, <<"JA1ABC">>, <<"CQ">> >>
      RowE == << <<"JA1ABC">>, <<"14195">> >>
      Td(cell) == << StartTag("td", "", ""), Text(cell), EndTag("td") >>
      Tr(row) ==
        << StartTag("tr", "", "") >> \o Td(row[1]) \o Td(row[2])
        \o (IF Len(row) > 2 THEN Td(row[3]) ELSE << >>)
        \o << EndTag("tr") >>
      Table(trs) == << StartTag("table", "", "") >> \o trs \o << EndTag("table") >>
  IN
  { [events |-> Table(Tr(RowA) \o Tr(RowB)), rows |-> <<RowA, RowB>>],
    [events |-> Table(Tr(RowA)) \o Table(Tr(RowB)), rows |-> <<RowA, RowB>>],
    [events |-> Table(Tr(RowD) \o Tr(RowE)), rows |-> <<RowD, RowE>>],
    [events |-> Table(Tr(RowA)
                      \o << StartTag("tr", "", ""), StartTag("td", "", "") >>
                      \o Table(Tr(RowB))
                      \o << EndTag("td"), EndTag("tr") >>
                      \o Tr(RowC)),
     rows |-> <<RowA, RowB, RowC>>],
    [events |-> Table(Tr(RowA)) \o Tr(RowB) \o Table(Tr(RowC)),
     rows |-> <<RowA, RowC>>] }

(* documents for the DXWatch extractor, each with the spots of its spot   *)
(* elements that lie in the container and have a numeric frequency text   *)
(* and a callsign text; plain: no frequency text other than a number      *)
SpotDocuments ==
  LET SpotDiv(freq, call) ==
        << StartTag("div", "", "spot") >>
        \o (IF freq = << >> THEN << >>
            ELSE << StartTag("span", "", "freq"), Text(freq), EndTag("span") >>)
        \o (IF call = << >> THEN << >>
            ELSE << StartTag("a", "", "call"), Text(call), EndTag("a") >>)
        \o << EndTag("div") >>
      Container(inside) ==
        << StartTag("div", "spots", "") >> \o inside \o << EndTag("div") >>
      SpotA == [frequency |-> 14205, dx_call |-> <<"JA1ABC">>]
      SpotB == [frequency |-> 7030, dx_call |-> <<"K2XYZ">>]
  IN
  { [events |-> Container(SpotDiv(<<"14205.0">>, <<"JA1ABC">>)),
     expected |-> <<SpotA>>, plain |-> TRUE],
    [events |-> Container(SpotDiv(<<"14205.0">>, <<"JA1ABC">>)
                          \o SpotDiv(<<"7030.0">>, <<"K2XYZ">>)),
     expected |-> <<SpotA, SpotB>>, plain |-> TRUE],
    [events |-> Container(SpotDiv(<<"14205.0">>, << >>)),
     expected |-> << >>, plain |-> TRUE],
    [events |-> Container(SpotDiv(<< >>, <<"JA1ABC">>)),
     expected |-> << >>, plain |-> TRUE],
    [events |-> SpotDiv(<<"14205.0">>, <<"JA1ABC">>),
     expected |-> << >>, plain |-> TRUE],
    [events |-> Container(SpotDiv(<<"freq", "14205.0">>, <<"JA1ABC">>)),
     expected |-> <<SpotA>>, plain |-> FALSE],
    [events |-> Container(SpotDiv(<<"freq", "14205.0">>, <<"JA1ABC">>))
                \o SpotDiv(<<"freq", "7030.0">>, <<"K2XYZ">>),
     expected |-> <<SpotA>>, plain |-> FALSE] }

(* a parser of one of the two classes is created and a document fed to it *)
InitParsers ==
  /\ InitCommon
  /\ use_web_source = TRUE
  /\ probe = NoProbe
  /\ classified = NoClassified
  /\ noskimmer = FALSE
  /\ config_file = ConfigFile(TableA)
  /\ login = NoLogin
  /\ rounded = NoRounded
  /\ in_flight = << >>
  /\ \/ /\ generic_parser \in { [NoGeneric EXCEPT !.doc = d, !.pos = 1] :
                                 d \in TableDocuments }
        /\ dxwatch_parser = NoDxwatch
     \/ /\ generic_parser = NoGeneric
        /\ dxwatch_parser \in { [NoDxwatch EXCEPT !.doc = d, !.pos = 1] :
                                 d \in SpotDocuments }

(* the next event of the document goes to the handler of its kind *)
GenericFeed(kind, after) ==
  /\ generic_parser.doc # << >>
  /\ generic_parser.pos <= Len(generic_parser.doc.events)
  /\ generic_parser.doc.events[generic_parser.pos].kind = kind
  /\ generic_parser' = [after EXCEPT !.pos = @ + 1]
  /\ UNCHANGED << dxwatch_parser, rounded >>
  /\ UNCHANGED probes
  /\ ProbeFrame

GenericStartTag ==
  LET p == generic_parser
      tag == p.doc.events[p.pos].tag
  IN GenericFeed("start",
       IF tag = "table" THEN [p EXCEPT !.in_table = TRUE]
       ELSE IF p.in_table /\ tag = "tr"
       THEN [p EXCEPT !.in_row = TRUE, !.current_row_data = << >>]
       ELSE IF p.in_row /\ tag \in {"td", "th"}
       THEN [p EXCEPT !.column_data = << >>]
       ELSE p)

GenericEndTag ==
  LET p == generic_parser
      tag == p.doc.events[p.pos].tag
  IN GenericFeed("end",
       IF tag = "table"
       THEN [p EXCEPT !.in_table = FALSE,
                      !.spots = process_table_data(p.all_table_data, @),
                      !.all_table_data = << >>]
       ELSE IF tag = "tr"
       THEN [p EXCEPT !.in_row = FALSE,
                      !.all_table_data =
                         IF p.current_row_data # << >>
                         THEN Append(@, p.current_row_data) ELSE @]
       ELSE IF p.in_row /\ tag \in {"td", "th"}
       THEN [p EXCEPT !.current_row_data = Append(@, p.column_data)]
       ELSE p)

GenericData ==
  LET p == generic_parser IN
  GenericFeed("data",
    IF p.in_row
    THEN [p EXCEPT !.column_data = @ \o p.doc.events[p.pos].data]
    ELSE p)

DxwatchFeed(kind, after) ==
  /\ dxwatch_parser.doc # << >>
  /\ dxwatch_parser.pos <= Len(dxwatch_parser.doc.events)
  /\ dxwatch_parser.doc.events[dxwatch_parser.pos].kind = kind
  /\ dxwatch_parser' = [after EXCEPT !.pos = @ + 1]
  /\ UNCHANGED << generic_parser, rounded >>
  /\ UNCHANGED probes
  /\ ProbeFrame

(* 'spot' in attrs_dict['class'] and the like: the attribute value holds   *)
(* the word                                                                *)
DxwatchStartTag ==
  LET p == dxwatch_parser
      ev == p.doc.events[p.pos]
      ClassHolds(word) == ev.class = word \/ (word = "spot" /\ ev.class = "spots")
      p1 == IF ev.tag = "div" /\ ev.id = "spots"
            THEN [p EXCEPT !.in_spots_div = TRUE]
            ELSE IF p.in_spots_div /\ ev.tag = "div" /\ ClassHolds("spot")
            THEN [p EXCEPT !.in_spot_div = TRUE,
                           !.current_spot = NoDxwatch.current_spot]
            ELSE p
  IN DxwatchFeed("start",
       IF ~p1.in_spot_div THEN p1
       ELSE [p1 EXCEPT
               !.current_tag = ev.tag,
               !.current_data =
                  IF \/ ev.tag = "span" /\ ClassHolds("freq")
                     \/ ev.tag = "a" /\ ClassHolds("call")
                  THEN << >> ELSE @])

(* 'freq' in self.current_data: the text holds the letters freq *)
DxwatchEndTag ==
  LET p == dxwatch_parser
      tag == p.doc.events[p.pos].tag
      HoldsFreq == \E i \in 1..Len(p.current_data) :
                     p.current_data[i] \in {"freq", "freq:"}
      n == FirstIndex({ x \in 1..Len(p.current_data) :
                          DecimalToken(p.current_data[x]) })
      p1 == IF tag = "div" /\ p.in_spots_div /\ ~p.in_spot_div
            THEN [p EXCEPT !.in_spots_div = FALSE]
            ELSE IF tag = "div" /\ p.in_spot_div
            THEN [p EXCEPT
                    !.in_spot_div = FALSE,
                    !.spots =
                       IF {"dx_call", "frequency"} \subseteq p.current_spot.keys
                       THEN Append(@, [frequency |-> p.current_spot.frequency,
                                       dx_call |-> p.current_spot.dx_call])
                       ELSE @]
            ELSE p
  IN DxwatchFeed("end",
       IF ~(p1.in_spot_div /\ tag = p1.current_tag) THEN p1
       ELSE IF tag = "span" /\ HoldsFreq
       THEN [p1 EXCEPT
               !.current_tag = "",
               !.current_spot =
                  IF n = 0 THEN @
                  ELSE [@ EXCEPT !.keys = @ \cup {"frequency"},
                                 !.frequency = FloatKhz(p1.current_data[n])]]
       ELSE IF tag = "a" /\ p1.current_data # << >>
       THEN [p1 EXCEPT
               !.current_tag = "",
               !.current_spot =
                  [@ EXCEPT !.keys = @ \cup {"dx_call"},
                            !.dx_call = p1.current_data]]
       ELSE [p1 EXCEPT !.current_tag = ""])

DxwatchData ==
  LET p == dxwatch_parser IN
  DxwatchFeed("data",
    IF p.in_spot_div /\ p.current_tag # ""
    THEN [p EXCEPT !.current_data = @ \o p.doc.events[p.pos].data]
    ELSE p)

NextParsers ==
  \/ GenericStartTag
  \/ GenericEndTag
  \/ GenericData
  \/ DxwatchStartTag
  \/ DxwatchEndTag
  \/ DxwatchData

SpecParsers == InitParsers /\ [][NextParsers]_vars

(* the network loop fed with lines of every format, whole or divided       *)
(* between two reads                                                       *)
PeerLines ==
  { <<"DX", "de", "ON4KST:", "14205.0", "JA1ABC", "CQ", "SSB", "1200Z">>,
    <<"DX", "de", "W1AW", "spots", "JA1ABC", "on", "14205.0", "kHz", "CQ">>,
    <<"Spot:", "W1AW", "14205.0", "JA1ABC", "CQ">>,
    <<"W1AW", "spots", "JA1ABC", "on", "14205.0", "kHz", "CQ">>,
    <<"QSO", "14205.0", "JA1ABC", "CQ">>,
    <<"14205.0", "JA1ABC", "CQ">>,
    <<"Hello", "ANALYZER">> }

(* recv returns the start of a line; the rest has not arrived yet *)
NetReadStart ==
  /\ in_flight = << >>
  /\ \E line \in PeerLines : \E k \in 1..(Len(line) - 1) :
       /\ NetRead({ << SubSeq(line, 1, k) >> }, NoTimeStep)
       /\ in_flight' = SubSeq(line, k + 1, Len(line))
  /\ UNCHANGED << faults, config_file >>
  /\ UNCHANGED probes
  /\ UNCHANGED parsers

(* the next recv returns the rest of the line *)
NetReadRest ==
  /\ in_flight # << >>
  /\ NetRead({ << in_flight >> }, NoTimeStep)
  /\ in_flight' = << >>
  /\ UNCHANGED << faults, config_file >>
  /\ UNCHANGED probes
  /\ UNCHANGED parsers

NextLines ==
  \/ Free(RunNetConnected)
  \/ in_flight = << >> /\ Free(NetRead(Batches(PeerLines), NoTimeStep))
  \/ NetReadStart
  \/ NetReadRest
  \/ Free(Interrupted)

InitLines == InitNet /\ config_file = ConfigFile(TableA)

SpecLines == InitLines /\ [][NextLines]_vars

(* the network loop with time passing between iterations *)
KeepaliveSteps == {0, 60, 150}

NextKeepalive ==
  \/ Free(RunNetConnected)
  \/ Free(RunNetConnectFailed)
  \/ Free(NetRead(Batches(NoSpotLines), KeepaliveSteps))
  \/ Free(NetIdle(KeepaliveSteps))
  \/ Limited(NetKeepaliveFailed(KeepaliveSteps))
  \/ Limited(NetSocketError)
  \/ Free(BudgetReached)
  \/ Free(Interrupted)

InitKeepalive == InitNet /\ config_file = ConfigFile(TableA)

SpecKeepalive == InitKeepalive /\ [][NextKeepalive]_vars

(* a web run in progress for over an hour: the cache holds keys of spots   *)
(* that the filter excluded, seen CacheAges seconds ago                    *)
CacheAges == {DedupWindow - 1, DedupWindow, cache_expiry, cache_expiry + 1}

InitSweep ==
  /\ use_web_source = TRUE
  /\ pc = "web"
  /\ band_configs = TableA
  /\ stop_reason = ""
  /\ cluster_host = DefaultClusterHost
  /\ current_backup_index = 0
  /\ consecutive_disconnections = 0
  /\ reconnect_delay = InitialReconnectDelay
  /\ connected = FALSE
  /\ total_spots = 0
  /\ frequency_counts = << >>
  /\ raw_data_buffer = << >>
  /\ raw_file = setup_output_files
  /\ processed_file = NoSnapshot
  /\ \E a \in CacheAges, b \in CacheAges \ {DedupWindow - 1, DedupWindow} :
       spot_cache = (<<"JA1ABC", 14205>> :> StartTime - a)
                    @@ (<<"JA1ABC", 14195>> :> StartTime - b)
  /\ last_cache_cleanup \in {StartTime - CleanupInterval,
                              StartTime - CleanupInterval + 1}
  /\ last_poll_time = StartTime - poll_interval
  /\ now = StartTime
  /\ url_i = 0
  /\ spots = << >>
  /\ last_keepalive = 0
  /\ last_data_time = 0
  /\ keepalive = << >>
  /\ event = "process"
  /\ attempts = << >>
  /\ slept = 0
  /\ chain = NoChain
  /\ clean = TRUE
  /\ seen = << >>
  /\ fetched = << >>
  /\ hit = << >>
  /\ faults = 0
  /\ probe = NoProbe
  /\ classified = NoClassified
  /\ noskimmer = FALSE
  /\ config_file = ConfigFile(TableA)
  /\ login = NoLogin
  /\ IdleParsers

NextSweep ==
  \/ Free(BudgetReached)
  \/ Free(Interrupted)
  \/ Free(WebPoll)
  \/ Free(FetchUrlError)
  \/ Free(FetchUrlEmpty)
  \/ Free(FetchUrlSpots)
  \/ Free(WebProcess)

SpecSweep == InitSweep /\ [][NextSweep]_vars

(* should_include_spot applied to arguments drawn from bounded sets *)
ProbeFrequencies ==
  {1900, 5000, 6999, 7000, 7030, 7040, 7041, 14000, 14099, 14100, 14205, 14350,
   14351, 29700, 29701, 50100, 144300}
InitFilter ==
  /\ InitCommon
  /\ ~use_web_source
  /\ probe \in [table : BandTables, frequency : ProbeFrequencies,
                 mode : {"CW", "SSB", "DIGITAL", "UNKNOWN", "FM", "cw"},
                 applied : {FALSE}, result : {FALSE}]
  /\ classified = NoClassified
  /\ noskimmer = FALSE
  /\ config_file = ConfigFile(TableA)
  /\ login = NoLogin
  /\ IdleParsers

ApplyFilter ==
  /\ ~probe.applied
  /\ probe' = [probe EXCEPT
                 !.applied = TRUE,
                 !.result = should_include_spot(probe.table, probe.frequency, probe.mode)]
  /\ UNCHANGED << classified, noskimmer, login >>
  /\ UNCHANGED parsers
  /\ ProbeFrame

SpecFilter == InitFilter /\ [][ApplyFilter]_vars

(* determine_mode_and_band applied to arguments drawn from bounded sets *)
InitClassify ==
  /\ InitCommon
  /\ ~use_web_source
  /\ probe = NoProbe
  /\ classified \in [table : BandTables, frequency : ProbeFrequencies,
                      comment :
                        { << >>, <<"CQ">>, <<"CQ", "SSB">>, <<"cw">>, <<"ft8">>,
                          <<"SSB", "CW">>, <<"rtty", "usb">>, <<"qrs">>, <<"CWT">>,
                          <<"PSK", "QRS">>, <<"TNX", "PHONE">>, <<"CW", "SSB">>,
                          <<"usb", "rtty">>, <<"QRS", "PSK">>,
                          <<"ft8", "SSB", "CW">> },
                      applied : {FALSE},
                      mode : {""}, band : {""}, region : {""}]
  /\ noskimmer = FALSE
  /\ config_file = ConfigFile(TableA)
  /\ login = NoLogin
  /\ IdleParsers

ApplyClassify ==
  /\ ~classified.applied
  /\ LET r == determine_mode_and_band(classified.table, classified.frequency,
                                      classified.comment)
     IN classified' = [classified EXCEPT !.applied = TRUE, !.mode = r.mode,
                                         !.band = r.band, !.region = r.region]
  /\ UNCHANGED << probe, noskimmer, login >>
  /\ UNCHANGED parsers
  /\ ProbeFrame

SpecClassify == InitClassify /\ [][ApplyClassify]_vars

(* ---------------- _try_connect, one call after another ---------------- *)
(* login.elapsed counts half seconds since start_time                      *)
InitLogin ==
  /\ InitCommon
  /\ ~use_web_source
  /\ probe = NoProbe
  /\ classified = NoClassified
  /\ noskimmer \in BOOLEAN
  /\ config_file = ConfigFile(TableA)
  /\ login = NoLogin
  /\ IdleParsers

LoginFrame ==
  /\ UNCHANGED << probe, classified, noskimmer >>
  /\ UNCHANGED parsers
  /\ ProbeFrame

Returned(value, raised, why) ==
  login' = [login EXCEPT !.phase = "returned", !.result = value,
                         !.raised = raised, !.last = why]

(* gethostbyname or connect fails *)
TryConnectUnreachable ==
  /\ login.phase \in {"idle", "returned"}
  /\ \E call \in (IF login.phase = "idle" THEN {"initial"}
                   ELSE {"reconnect", "failover"}),
        host \in {backup_clusters[n] : n \in 1..Len(backup_clusters)}
                          \cup {DefaultClusterHost},
        why \in {"dns_failed", "connect_failed"} :
       login' = [NoLogin EXCEPT !.phase = "returned", !.call = call,
                                !.host = host, !.last = why]
  /\ LoginFrame

(* connect succeeds: the login loop starts *)
TryConnectEstablished ==
  /\ login.phase \in {"idle", "returned"}
  /\ \E call \in (IF login.phase = "idle" THEN {"initial"}
                   ELSE {"reconnect", "failover"}),
        host \in {backup_clusters[n] : n \in 1..Len(backup_clusters)}
                          \cup {DefaultClusterHost} :
       login' = [NoLogin EXCEPT !.phase = "login", !.call = call, !.host = host,
                                !.established = TRUE, !.last = "connected"]
  /\ LoginFrame

InLoginLoop ==
  /\ login.phase = "login"
  /\ login.elapsed < 2 * LoginWindow

(* recv returns text after 0 s or 5 s *)
LoginChunk ==
  /\ InLoginLoop
  /\ \E prompt \in BOOLEAN, success \in BOOLEAN, dt \in {0, 10}, send_ok \in BOOLEAN :
       /\ prompt => (Len(SelectSeq(login.sent, LAMBDA c : c.cmd = "callsign"))) < MaxCallsignSends
       /\ ~prompt => send_ok
       /\ LET why == IF prompt /\ success THEN "prompt_success"
                     ELSE IF prompt THEN "prompt"
                     ELSE IF success THEN "success" ELSE "other"
              l1 == [login EXCEPT
                       !.elapsed = @ + dt,
                       !.last = why,
                       !.sent = IF prompt
                                THEN Append(@, [cmd |-> "callsign", ok |-> send_ok])
                                ELSE @]
          IN IF ~send_ok
             THEN login' = [l1 EXCEPT !.phase = "returned", !.result = FALSE,
                                      !.raised = TRUE]
             ELSE IF success
                  THEN login' = [l1 EXCEPT !.phase = "commands",
                                           !.login_successful = TRUE]
                  ELSE login' = l1
  /\ LoginFrame

(* recv returns '' (the peer closed): sleep 0.5 s and read again *)
LoginEmptyRead ==
  /\ InLoginLoop
  /\ login' = [login EXCEPT !.elapsed = @ + 1, !.last = "empty"]
  /\ LoginFrame

(* recv times out after 10 s: send the callsign, sleep 1 s *)
LoginTimeout ==
  /\ InLoginLoop
  /\ (Len(SelectSeq(login.sent, LAMBDA c : c.cmd = "callsign"))) < MaxCallsignSends
  /\ \E send_ok \in BOOLEAN :
       LET l1 == [login EXCEPT
                    !.elapsed = @ + 2 * ConnectRecvTimeout,
                    !.last = "timeout",
                    !.sent = Append(@, [cmd |-> "callsign", ok |-> send_ok])]
       IN IF send_ok
          THEN login' = [l1 EXCEPT !.elapsed = @ + 2]
          ELSE login' = [l1 EXCEPT !.phase = "returned", !.result = FALSE,
                                   !.raised = TRUE]
  /\ LoginFrame

(* recv raises another socket error (connection reset) *)
LoginRecvError ==
  /\ InLoginLoop
  /\ Returned(FALSE, TRUE, "recv_error")
  /\ LoginFrame

(* the while condition fails on the window *)
LoginWindowElapsed ==
  /\ login.phase = "login"
  /\ login.elapsed >= 2 * LoginWindow
  /\ login' = [login EXCEPT !.phase = "commands", !.last = "window_elapsed"]
  /\ LoginFrame

SendSkimmer_AbortOnError ==
  /\ login.phase = "commands"
  /\ \E send_ok \in BOOLEAN :
       login' = [login EXCEPT
                   !.phase = IF send_ok THEN "history" ELSE "returned",
                   !.result = FALSE,
                   !.sent = Append(@, [cmd |-> "SET/SKIMMER", ok |-> send_ok])]
  /\ LoginFrame

(* lines 584-590; the send may fail, which is logged and ignored *)
SendSkimmer ==
  /\ login.phase = "commands"
  /\ \E send_ok \in BOOLEAN :
       login' = [login EXCEPT
                   !.phase = "history",
                   !.sent = Append(@, [cmd |-> "SET/SKIMMER", ok |-> send_ok])]
  /\ LoginFrame

AfterLogin_NeedsConfirmation(login_successful) == login_successful

(* what _try_connect returns once the login loop is over *)
AfterLogin(login_successful) == TRUE

(* lines 592-602 *)
SendHistory ==
  /\ login.phase = "history"
  /\ \E send_ok \in BOOLEAN :
       login' = [login EXCEPT
                   !.phase = "returned",
                   !.sent = Append(@, [cmd |-> "sh/dx 100", ok |-> send_ok]),
                   !.result = AfterLogin(login.login_successful)]
  /\ LoginFrame

NextLogin ==
  \/ TryConnectUnreachable
  \/ TryConnectEstablished
  \/ LoginChunk
  \/ LoginEmptyRead
  \/ LoginTimeout
  \/ LoginRecvError
  \/ LoginWindowElapsed
  \/ SendSkimmer
  \/ SendHistory

SpecLogin == InitLogin /\ [][NextLogin]_vars


(* ======================= properties ======================= *)
LoggedIn(att) == att # << >> /\ att[Len(att)].ok

InRange(rule, frequency) ==
  rule.StartFreq <= frequency /\ frequency <= rule.EndFreq

(* C1: of the first two sightings of a key, both passing the inclusion     *)
(* filter, exactly one is counted when they are less than 600 s apart and  *)
(* both are counted otherwise - in network mode and in web mode            *)
C1_DedupInBothModes ==
  LET (* sighting j is the first later sighting of the key first sighted at i *)
      FirstTwoOfKey(i, j) ==
        /\ i < j
        /\ seen[i].key = seen[j].key
        /\ \A h \in 1..(j - 1) : h # i => seen[h].key # seen[i].key
  IN
  \A i, j \in 1..Len(seen) :
    (FirstTwoOfKey(i, j) /\ seen[i].pass /\ seen[j].pass) =>
      IF seen[j].t - seen[i].t < DedupWindow
      THEN seen[i].counted # seen[j].counted
      ELSE seen[i].counted /\ seen[j].counted

(* C2: when the 10th empty-read disconnect in a row happens on the         *)
(* endpoint E in use, the next connection attempt goes to the endpoint     *)
(* that follows E in the ranked list, and never to E itself                *)
C2_FailoverTargetsNextRanked ==
  [][ LET (* the ranked list: primary first, then the backups in order *)
          StaticRanked == <<DefaultClusterHost>> \o backup_clusters
          RankedFrom(host) ==
            <<host>> \o SelectSeq(backup_clusters, LAMBDA b : b # host)
          NextStatic(host) ==
            LET i == CHOOSE n \in 1..Len(StaticRanked) : StaticRanked[n] = host
            IN StaticRanked[(i % Len(StaticRanked)) + 1]
      IN (event' = "failover" /\ clean /\ connected) =>
           /\ attempts'[1].host # cluster_host
           /\ attempts'[1].host \in {NextStatic(cluster_host),
                                     RankedFrom(cluster_host)[2]}
    ]_vars

(* C3: each empty-read disconnect adds one to the consecutive-disconnect   *)
(* counter (which restarts at the threshold), and the counter is 0 right   *)
(* after every successful login                                            *)
C3_CounterResetOnLogin ==
  /\ [](LoggedIn(attempts) => consecutive_disconnections = 0)
  /\ [][ event' \in {"empty_read", "failover"} =>
           consecutive_disconnections' =
             IF consecutive_disconnections + 1 >= FailoverThreshold
             THEN 0 ELSE consecutive_disconnections + 1
       ]_vars

(* C4: in network mode, once the rule table is loaded, run ends only on    *)
(* an external stop or on the time/size budget                             *)
C4_NetworkNeverGivesUp ==
  (pc = "done" /\ ~use_web_source /\ stop_reason # "config_error") =>
    stop_reason \in {"interrupt", "budget"}

(* C5 as stated: with no data received since the previous wait and the     *)
(* endpoint unchanged, each wait is twice the previous one, capped at 300  *)
C5_BackoffDoublesWithoutData ==
  [][ (slept' # 0 /\ chain.last # 0 /\ chain.same) =>
        slept' = Min(2 * chain.last, max_reconnect_delay)
    ]_vars

(* C5 amended: a wait is 1 s when it is the first one, or when an          *)
(* iteration ran to its end since the previous wait (data received, or the *)
(* reconnect after an empty read succeeded); otherwise it is twice the     *)
(* previous wait, capped at 300 s                                          *)
C5_BackoffDoublesUntilReset ==
  [][ slept' # 0 =>
        slept' = IF chain.last = 0 \/ chain.reset
                 THEN InitialReconnectDelay
                 ELSE Min(2 * chain.last, max_reconnect_delay)
    ]_vars

C5_Witness == slept = 4 /\ chain.last = 4 /\ ~chain.reset

(* C6: the reconnect delay stays within 1..300 and changes only by a       *)
(* capped doubling or by a reset to 1                                      *)
C6_DelayBounded ==
  /\ [](InitialReconnectDelay <= reconnect_delay
        /\ reconnect_delay <= max_reconnect_delay)
  /\ [][ \/ reconnect_delay' = reconnect_delay
         \/ reconnect_delay' = Min(2 * reconnect_delay, max_reconnect_delay)
         \/ reconnect_delay' = InitialReconnectDelay
       ]_vars

C6_Witness == reconnect_delay = max_reconnect_delay /\ slept = max_reconnect_delay

(* C7: a successful connection makes its endpoint the primary, a step      *)
(* without a successful connection leaves the primary alone, and every     *)
(* connect_to_cluster call tries the primary first                         *)
C7_PromotionOnSuccess ==
  [][ /\ LoggedIn(attempts') => cluster_host' = attempts'[Len(attempts')].host
      /\ ~LoggedIn(attempts') => cluster_host' = cluster_host
      /\ event' \in {"start_net", "empty_read", "keepalive_failed", "socket_error"}
           => attempts'[1].host = cluster_host
      /\ (event' = "failover" /\ Len(attempts') > 1)
           => attempts'[2].host = cluster_host
    ]_vars

C7_Witness ==
  /\ event = "empty_read"
  /\ attempts[1].host # DefaultClusterHost
  /\ LoggedIn(attempts)
  /\ Len(attempts) > 1

(* C8: a poll cycle fetches the URLs in ranked order from the first one,   *)
(* goes on only while no fetch has yielded spots, hands exactly the spots  *)
(* of the first yielding URL to the pipeline, and starts at URL 1 again    *)
C8_PollCycleFirstYield ==
  /\ [](pc \in {"fetch", "process"} =>
          fetched = [n \in 1..Len(fetched) |-> n])
  /\ [](pc = "fetch" => hit = << >> /\ url_i = Len(fetched) + 1)
  /\ [](pc = "process" =>
          IF hit = << >>
          THEN spots = << >> /\ Len(fetched) = NumUrls
          ELSE spots = hit.spots /\ hit.url = Len(fetched))
  /\ [][ (pc = "web" /\ pc' = "fetch") => (url_i' = 1 /\ fetched' = << >>) ]_vars
  /\ [][ (pc = "process" /\ pc' = "web") => Len(seen') = Len(seen) + Len(spots) ]_vars

C8_Witness ==
  /\ pc = "process"
  /\ hit # << >>
  /\ hit.url = 3
  /\ Len(spots) = 2
  /\ fetched = <<1, 2, 3>>

(* C9: every counter with a positive count is for mode CW or SSB and some  *)
(* rule of that mode contains its frequency                                *)
C9_CountedOnlyUnderRule ==
  \A k \in DOMAIN frequency_counts :
    frequency_counts[k] > 0 =>
      /\ k[2] \in {"CW", "SSB"}
      /\ \E n \in 1..Len(band_configs) :
           band_configs[n].Mode = k[2] /\ InRange(band_configs[n], k[1])

C9_Witness ==
  /\ \E k \in DOMAIN frequency_counts : frequency_counts[k] > 0
  /\ \E n \in 1..Len(seen) : ~seen[n].pass /\ seen[n].mode = "DIGITAL"

(* C10: should_include_spot is false for every mode outside {CW, SSB} and  *)
(* true only if a rule of exactly that mode contains the frequency         *)
C10_FilterOnlyCwSsbUnderRule ==
  probe.applied =>
    /\ probe.mode \notin {"CW", "SSB"} => probe.result = FALSE
    /\ probe.result = TRUE =>
         /\ probe.mode \in {"CW", "SSB"}
         /\ \E n \in 1..Len(probe.table) :
              probe.table[n].Mode = probe.mode
              /\ InRange(probe.table[n], probe.frequency)

C10_Witness ==
  /\ probe.applied
  /\ probe.result = TRUE
  /\ probe.mode = "CW"

(* rules of the table whose closed range contains the frequency *)
Containing(table, frequency) ==
  { n \in 1..Len(table) : InRange(table[n], frequency) }

Keyword(comment, words) ==
  \E i \in 1..Len(comment) : UpperWord(comment[i]) \in words

(* C11: when the comment holds no mode keyword and some rule contains the  *)
(* frequency, the classifier returns the mode, band and region of the      *)
(* first such rule in table order                                          *)
C11_FirstContainingRuleWins ==
  LET hitting == Containing(classified.table, classified.frequency) IN
  ( /\ classified.applied
    /\ ~Keyword(classified.comment,
                cw_indicators \cup ssb_indicators \cup digital_indicators)
    /\ hitting # {} ) =>
      LET n == CHOOSE a \in hitting : \A b \in hitting : a <= b
          rule == classified.table[n]
      IN /\ classified.mode = rule.Mode
         /\ classified.band = rule.Band
         /\ classified.region = rule.Region

C11_Witness ==
  /\ classified.applied
  /\ classified.comment = <<"CQ">>
  /\ Cardinality(Containing(classified.table, classified.frequency)) = 2
  /\ classified.mode = "CW"
  /\ classified.band = "40m"
  /\ classified.region = "R1"

(* C12 as stated: a keyword of a category in the comment makes the mode    *)
(* that category, whatever else the comment contains                       *)
C12_KeywordDecidesMode ==
  classified.applied =>
    /\ Keyword(classified.comment, cw_indicators) => classified.mode = "CW"
    /\ Keyword(classified.comment, ssb_indicators) => classified.mode = "SSB"
    /\ Keyword(classified.comment, digital_indicators) => classified.mode = "DIGITAL"

(* C12 amended: the mode is the category of the highest-priority keyword   *)
(* present (CW, then SSB, then DIGITAL), whatever mode the rule supplied   *)
C12_KeywordByPriority ==
  classified.applied =>
    /\ Keyword(classified.comment, cw_indicators) => classified.mode = "CW"
    /\ ( /\ ~Keyword(classified.comment, cw_indicators)
         /\ Keyword(classified.comment, ssb_indicators) ) => classified.mode = "SSB"
    /\ ( /\ ~Keyword(classified.comment, cw_indicators)
         /\ ~Keyword(classified.comment, ssb_indicators)
         /\ Keyword(classified.comment, digital_indicators) )
           => classified.mode = "DIGITAL"

C12_Witness ==
  /\ classified.applied
  /\ classified.comment = <<"SSB", "CW">>
  /\ classified.frequency = 14205
  /\ classified.table = TableA
  /\ classified.mode = "CW"
  /\ classified.band = "20m"

(* every counter equals the number of sightings counted under its          *)
(* frequency and mode, and the total equals the number of counted sightings *)
CountsMatchSightings ==
  /\ \A n \in 1..Len(seen) :
       seen[n].counted => <<seen[n].key[2], seen[n].mode>> \in DOMAIN frequency_counts
  /\ \A k \in DOMAIN frequency_counts :
       frequency_counts[k] =
         Cardinality({ n \in 1..Len(seen) :
                         /\ seen[n].counted
                         /\ seen[n].key[2] = k[1]
                         /\ seen[n].mode = k[2] })
  /\ total_spots = Cardinality({ n \in 1..Len(seen) : seen[n].counted })

ScenarioA == <<"DX", "de", "ON4KST:", "14205.0", "JA1ABC", "CQ", "SSB", "1200Z">>

ScenarioB == <<"DX", "de", "W1AW:", "7030.0", "K2XYZ", "CW", "QRS", "0300Z">>

(* C13: a line 'DX de <spotter>: <freq> <dxcall> <comment> <time>Z' is     *)
(* parsed into spotter, frequency, dx callsign, comment without the time   *)
(* token, and time; with an SSB rule covering the frequency it is admitted *)
(* and counted once under that frequency with mode SSB and the rule's band *)
C13_CanonicalLineAdmittedOnce ==
  /\ \A n \in 1..Len(seen) :
       (seen[n].src = "net" /\ seen[n].raw.line = ScenarioA) =>
         /\ seen[n].raw.spot =
              [spotter |-> "ON4KST", dx_call |-> "JA1ABC",
               comment |-> <<"CQ", "SSB">>, time_str |-> "1200Z",
               frequency |-> 14205]
         /\ seen[n].key = <<"JA1ABC", 14205>>
         /\ \A r \in 1..Len(band_configs) :
              (band_configs[r].Mode = "SSB" /\ InRange(band_configs[r], 14205)) =>
                /\ seen[n].counted
                /\ seen[n].mode = "SSB"
                /\ seen[n].band = band_configs[r].Band
  /\ \A n \in 1..Len(seen) :
       (seen[n].src = "net" /\ seen[n].raw.line = ScenarioB) =>
         seen[n].raw.spot =
           [spotter |-> "W1AW", dx_call |-> "K2XYZ",
            comment |-> <<"CW", "QRS">>, time_str |-> "0300Z",
            frequency |-> 7030]
  /\ CountsMatchSightings

C13_Witness ==
  /\ Len(seen) = 1
  /\ seen[1].raw.line = ScenarioA
  /\ seen[1].counted
  /\ seen[1].band = "20m"
  /\ frequency_counts = (<<14205, "SSB">> :> 1)
  /\ total_spots = 1
  /\ Len(raw_data_buffer) = 1

Categories(comment) ==
  { c \in {"CW", "SSB", "DIGITAL"} :
      Keyword(comment, CASE c = "CW" -> cw_indicators
                         [] c = "SSB" -> ssb_indicators
                         [] OTHER -> digital_indicators) }

(* C14: when the keyword of a comment overrides the mode of the rule that  *)
(* contains the frequency, the spot has the keyword's mode and the rule's  *)
(* band and region; it is counted only if a rule of the keyword's mode     *)
(* contains the frequency, and then under the keyword's mode                *)
C14_KeywordOverrideCounting ==
  /\ \A n \in 1..Len(seen) :
       LET hitting == Containing(band_configs, seen[n].key[2])
           cats == Categories(IF seen[n].src = "net"
                              THEN seen[n].raw.spot.comment
                              ELSE seen[n].raw.comment)
       IN (hitting # {} /\ Cardinality(cats) = 1) =>
            LET r == CHOOSE a \in hitting : \A b \in hitting : a <= b
                kw == CHOOSE c \in cats : TRUE
            IN /\ seen[n].mode = kw
               /\ seen[n].band = band_configs[r].Band
               /\ seen[n].region = band_configs[r].Region
               /\ seen[n].counted =>
                    /\ kw \in {"CW", "SSB"}
                    /\ \E q \in hitting : band_configs[q].Mode = kw
  /\ \A n \in 1..Len(seen) :
       seen[n].counted =>
         /\ <<seen[n].key[2], seen[n].mode>> \in DOMAIN frequency_counts
         /\ frequency_counts[<<seen[n].key[2], seen[n].mode>>] > 0
  /\ \A k \in DOMAIN frequency_counts :
       \E n \in 1..Len(seen) :
         seen[n].counted /\ seen[n].key[2] = k[1] /\ seen[n].mode = k[2]

C14_Witness ==
  /\ Len(seen) = 1
  /\ seen[1].raw.line = ScenarioB
  /\ band_configs = TableA
  /\ seen[1].mode = "CW"
  /\ seen[1].band = "40m"
  /\ ~seen[1].counted
  /\ frequency_counts = << >>

Active == login.phase \in {"commands", "history"} \/ (login.phase = "returned" /\ login.result)

(* C15 as stated: once the TCP connection is established the call ends in  *)
(* Active and reports success in every case                                *)
C15_LoginAlwaysActive ==
  (login.phase = "returned" /\ login.established) => login.result

(* C15 amended: a success keyword makes the connection Active at once;     *)
(* without one it becomes Active only when the 30 s window has elapsed,    *)
(* whatever was received; the call then reports success; it reports        *)
(* failure only when recv or a send of the callsign raised during login    *)
C15_LoginActiveUnlessSocketError ==
  /\ []( (login.phase = "returned" /\ login.established) =>
           (login.result <=> ~login.raised) )
  /\ []( (Active /\ ~login.login_successful) => login.elapsed >= 2 * LoginWindow )
  /\ []( login.raised => login.last \in {"recv_error", "timeout", "prompt", "prompt_success"} )
  /\ [][ ( /\ login.phase = "login"
           /\ login'.phase # "idle"
           /\ login'.last \in {"success", "prompt_success"}
           /\ ~login'.raised ) => (login'.phase = "commands" /\ login'.login_successful)
       ]_vars
  /\ [][ (login.phase = "login" /\ login'.phase = "commands") =>
           \/ login'.last \in {"success", "prompt_success"}
           \/ login'.last = "window_elapsed" /\ login.elapsed >= 2 * LoginWindow
       ]_vars

C15_Witness ==
  /\ login.phase = "returned"
  /\ login.result
  /\ ~login.login_successful
  /\ login.elapsed = 60
  /\ login.sent = << [cmd |-> "SET/SKIMMER", ok |-> TRUE],
                     [cmd |-> "sh/dx 100", ok |-> TRUE] >>

(* C20: with --noskimmer the SET/SKIMMER command is never sent, on the     *)
(* initial connection or on any reconnect or failover                      *)
C20_NoSkimmerNeverSent ==
  noskimmer => \A n \in 1..Len(login.sent) : login.sent[n].cmd # "SET/SKIMMER"

(* C16: a step of the run that carries the admitted total to or past a     *)
(* multiple of 1000 writes a snapshot, and a step that leaves the total    *)
(* unchanged writes none, the final one at shutdown aside                  *)
C16_SnapshotEveryThousandth ==
  [][ event' \notin {"budget", "interrupt", "connect_failed"} =>
        /\ (total_spots' \div SnapshotEvery > total_spots \div SnapshotEvery)
             => processed_file' # processed_file
        /\ (total_spots' = total_spots) => processed_file' = processed_file
    ]_vars

Malformed(file) ==
  LET LacksColumn(row) ==
        IF Columns \subseteq DOMAIN row THEN row.Region = None ELSE TRUE
  IN \/ ~file.exists
     \/ \E n \in 1..Len(file.rows) : LacksColumn(file.rows[n])

(* C18: if the rule table cannot be loaded - file missing, unreadable, or  *)
(* rows lacking a required column - run reports failure and nothing else   *)
(* happens: no connection, no fetch, no output file, no change of          *)
(* counters, buffer or dedup cache                                         *)
C18_NoIngestionWithoutTable ==
  Malformed(config_file) =>
    /\ pc \in {"init", "done"}
    /\ pc = "done" => stop_reason = "config_error"
    /\ attempts = << >> /\ ~connected
    /\ fetched = << >> /\ url_i = 0
    /\ raw_file = << >> /\ processed_file = NoSnapshot
    /\ frequency_counts = << >> /\ total_spots = 0
    /\ raw_data_buffer = << >> /\ spot_cache = << >>

(* C19: in web ingestion a frequency that is a multiple of 1000 kHz is     *)
(* replaced by the kHz value of a decimal MHz token of the comment that    *)
(* is not a multiple of 1000 and lies in the same 1000-kHz block, whatever *)
(* other decimal tokens the comment contains                               *)
C19_RoundedFrequencyRefined ==
  \A n \in 1..Len(seen) :
    ( /\ seen[n].src = "web"
      /\ seen[n].raw.frequency % 1000 = 0
      /\ seen[n].raw.frequency >= 1000 ) =>
        \A i \in 1..Len(seen[n].raw.comment) :
          LET v == DecimalMilli(seen[n].raw.comment[i]) IN
          ( /\ 1000 <= v /\ v <= 30000
            /\ v % 1000 # 0
            /\ v \div 1000 = seen[n].raw.frequency \div 1000 ) =>
              seen[n].key[2] = v

(* C21: when no rule contains the frequency, the band comes from the       *)
(* fallback table, which covers the shortwave bands 160m .. 10m and the    *)
(* VHF bands 50000-54000 -> 6m and 144000-148000 -> 2m; the band is        *)
(* UNKNOWN only outside every one of these ranges                          *)
C21_FallbackCoversShortwaveAndVhf ==
  ( /\ classified.applied
    /\ Containing(classified.table, classified.frequency) = {} ) =>
      LET f == classified.frequency IN
      classified.band =
        IF 1800 <= f /\ f <= 2000 THEN "160m"
        ELSE IF 3500 <= f /\ f <= 4000 THEN "80m"
        ELSE IF 5330 <= f /\ f <= 5406 THEN "60m"
        ELSE IF 7000 <= f /\ f <= 7300 THEN "40m"
        ELSE IF 10100 <= f /\ f <= 10150 THEN "30m"
        ELSE IF 14000 <= f /\ f <= 14350 THEN "20m"
        ELSE IF 18068 <= f /\ f <= 18168 THEN "17m"
        ELSE IF 21000 <= f /\ f <= 21450 THEN "15m"
        ELSE IF 24890 <= f /\ f <= 24990 THEN "12m"
        ELSE IF 28000 <= f /\ f <= 29700 THEN "10m"
        ELSE IF 50000 <= f /\ f <= 54000 THEN "6m"
        ELSE IF 144000 <= f /\ f <= 148000 THEN "2m"
        ELSE "UNKNOWN"

(* C22: determine_mode_and_band returns a triple of strings for every      *)
(* frequency and comment over a well-formed table, changes nothing of the  *)
(* program's state, and when no rule contains the frequency the region is  *)
(* UNKNOWN and the mode is UNKNOWN unless a keyword of the comment sets it *)
C22_ClassifyPureAndTotal ==
  [][ (~classified.applied /\ classified'.applied) =>
        /\ classified'.mode \in
             {"CW", "SSB", "DIGITAL", "UNKNOWN"} \cup
             { classified.table[i].Mode : i \in 1..Len(classified.table) }
        /\ classified'.band # "" /\ classified'.region # ""
        /\ classified'.table = classified.table
        /\ classified'.frequency = classified.frequency
        /\ classified'.comment = classified.comment
        /\ UNCHANGED << frequency_counts, total_spots, raw_data_buffer, raw_file,
                        processed_file, spot_cache, last_cache_cleanup,
                        band_configs, cluster_host, current_backup_index,
                        consecutive_disconnections, reconnect_delay, connected >>
        /\ Containing(classified.table, classified.frequency) = {} =>
             /\ classified'.region = "UNKNOWN"
             /\ ~Keyword(classified.comment,
                         cw_indicators \cup ssb_indicators \cup digital_indicators)
                  => classified'.mode = "UNKNOWN"
    ]_vars

C22_Witness ==
  /\ classified.applied
  /\ classified.table = TableA
  /\ classified.frequency = 14100
  /\ classified.comment = <<"CQ">>
  /\ classified.mode = "UNKNOWN"
  /\ classified.band = "20m"
  /\ classified.region = "UNKNOWN"

RECURSIVE SumOver(_, _)
SumOver(counts, keys) ==
  IF keys = {} THEN 0
  ELSE LET k == CHOOSE x \in keys : TRUE
       IN counts[k] + SumOver(counts, keys \ {k})

(* C23: no counter ever decreases; a counter changes only by +1 for each   *)
(* spot the step admitted at its (frequency, mode); the total grows by the *)
(* number of admitted spots and equals the sum of all counters             *)
C23_CountersGrowByAdmission ==
  [][ LET admitted == { n \in (Len(seen) + 1)..Len(seen') : seen'[n].counted } IN
      /\ \A k \in DOMAIN frequency_counts :
           k \in DOMAIN frequency_counts' /\ frequency_counts'[k] >= frequency_counts[k]
      /\ \A k \in DOMAIN frequency_counts' :
           frequency_counts'[k]
             - (IF k \in DOMAIN frequency_counts THEN frequency_counts[k] ELSE 0)
           = Cardinality({ n \in admitted : <<seen'[n].key[2], seen'[n].mode>> = k })
      /\ total_spots' = total_spots + Cardinality(admitted)
      /\ total_spots = SumOver(frequency_counts, DOMAIN frequency_counts)
      /\ total_spots' = SumOver(frequency_counts', DOMAIN frequency_counts')
    ]_vars

C23_Witness ==
  /\ total_spots = 2
  /\ \E k \in DOMAIN frequency_counts : frequency_counts[k] = 2
  /\ pc = "done"
  /\ processed_file.total = 2

(* C24: a run in web mode never opens the cluster socket and never changes *)
(* the connection state, the primary endpoint, the backup index or the     *)
(* disconnection counter; a run in network mode never fetches a URL        *)
C24_ModesExclusive ==
  [][ /\ use_web_source =>
           /\ attempts' = << >> /\ ~connected'
           /\ UNCHANGED << connected, cluster_host, current_backup_index,
                           consecutive_disconnections >>
      /\ ~use_web_source =>
           /\ fetched' = << >> /\ hit' = << >> /\ url_i' = 0
           /\ pc' \notin {"web", "fetch", "process"}
           /\ UNCHANGED << spot_cache, last_poll_time >>
    ]_vars

C24_Witness ==
  /\ use_web_source = TRUE
  /\ pc = "fetch"
  /\ fetched # << >>
  /\ total_spots > 0
  /\ attempts = << >> /\ ~connected

RECURSIVE LastKept(_, _, _)
LastKept(log, key, n) ==
  IF n = 0 THEN -1
  ELSE IF log[n].key = key /\ log[n].src = "web" /\ ~log[n].dup THEN log[n].t
       ELSE LastKept(log, key, n - 1)

(* C28: every sighting of a key by the web pipeline, a dropped duplicate   *)
(* included, leaves the key in the cache with the time of that sighting    *)
C28_EverySightingRefreshes ==
  [][ \A n \in (Len(seen) + 1)..Len(seen') :
        seen'[n].src = "web" =>
          /\ seen'[n].key \in DOMAIN spot_cache'
          /\ spot_cache'[seen'[n].key] = seen'[n].t
    ]_vars

(* C28 amended: a sighting that is not dropped as a duplicate leaves the   *)
(* key in the cache with the time of that sighting; a sighting dropped as  *)
(* a duplicate leaves the entry as it was, at the time of the latest       *)
(* sighting of the key that was not dropped, less than 600 s earlier       *)
C28_SightingRefreshesUnlessDuplicate ==
  [][ \A n \in (Len(seen) + 1)..Len(seen') :
        seen'[n].src = "web" =>
          /\ seen'[n].key \in DOMAIN spot_cache'
          /\ spot_cache'[seen'[n].key] = LastKept(seen', seen'[n].key, Len(seen'))
          /\ ~seen'[n].dup => spot_cache'[seen'[n].key] = seen'[n].t
          /\ seen'[n].dup =>
               /\ seen'[n].t - spot_cache'[seen'[n].key] < DedupWindow
               /\ seen'[n].key \in DOMAIN spot_cache
                    => spot_cache'[seen'[n].key] \in {spot_cache[seen'[n].key], seen'[n].t}
    ]_vars

C28_Witness ==
  \E n \in 1..Len(seen) :
    /\ seen[n].src = "web"
    /\ seen[n].dup
    /\ seen[n].t = StartTime + 300
    /\ spot_cache[seen[n].key] = StartTime
    /\ event = "process"

(* C29: the cache is written before the filter is applied: a web spot that *)
(* passed the dedup check and was excluded by the filter holds its key, so *)
(* a spot of the same key less than 600 s later is dropped as a duplicate  *)
(* even if it would pass the filter, and neither of the two is counted     *)
C29_DedupPrecedesFilter ==
  \A i \in 1..Len(seen) :
    ( /\ seen[i].src = "web" /\ ~seen[i].dup /\ ~seen[i].pass ) =>
        /\ ~seen[i].counted
        /\ seen[i].key \in DOMAIN spot_cache
        /\ spot_cache[seen[i].key] >= seen[i].t
        /\ \A j \in (i + 1)..Len(seen) :
             ( /\ seen[j].key = seen[i].key
               /\ seen[j].t - seen[i].t < DedupWindow ) =>
                 seen[j].dup /\ ~seen[j].counted

C29_Witness ==
  \E i, j \in 1..Len(seen) :
    /\ i < j
    /\ seen[i].src = "web" /\ seen[j].key = seen[i].key
    /\ ~seen[i].dup /\ ~seen[i].pass
    /\ seen[j].dup /\ seen[j].pass /\ ~seen[j].counted
    /\ seen[j].t = seen[i].t + 300
    /\ total_spots = 0

(* C30: the sweep runs at most once per 300 s; when it runs it removes     *)
(* exactly the entries older than 3600 s; an entry it removes is at least  *)
(* 600 s old and would block nothing, so the spots a batch admits are the  *)
(* same whether the sweep runs before the batch or not                     *)
C30_SweepNeverChangesAdmission ==
  [][ /\ last_cache_cleanup' # last_cache_cleanup =>
           /\ last_cache_cleanup' - last_cache_cleanup >= CleanupInterval
           /\ last_cache_cleanup' = now
           /\ pc = "process" /\ spots # << >>
      /\ (pc = "process" /\ pc' = "web") =>
           LET swept == last_cache_cleanup' # last_cache_cleanup
               resighted == { seen'[n].key : n \in (Len(seen) + 1)..Len(seen') }
               with == FoldWeb([Pipeline EXCEPT !.cache =
                                  clean_spot_cache(spot_cache, now - CleanupInterval,
                                                   now).cache],
                               spots, 1, now, band_configs)
               without == FoldWeb(Pipeline, spots, 1, now, band_configs)
           IN
           /\ \A k \in DOMAIN spot_cache \ resighted :
                /\ k \notin DOMAIN spot_cache' <=>
                     (swept /\ now - spot_cache[k] > cache_expiry)
                /\ k \in DOMAIN spot_cache' => spot_cache'[k] = spot_cache[k]
                /\ k \notin DOMAIN spot_cache' => now - spot_cache[k] >= DedupWindow
           /\ with.counts = without.counts
           /\ with.total = without.total
           /\ with.buffer = without.buffer
           /\ with.seen = without.seen
           /\ frequency_counts' = with.counts
           /\ seen' = with.seen
    ]_vars

C30_Witness ==
  /\ event = "process"
  /\ last_cache_cleanup = now
  /\ <<"JA1ABC", 14195>> \notin DOMAIN spot_cache
  /\ <<"JA1ABC", 14205>> \in DOMAIN spot_cache
  /\ spot_cache[<<"JA1ABC", 14205>>] = StartTime - cache_expiry
  /\ Len(seen) = 1

(* C25: on an active connection a keepalive command is sent only when no   *)
(* data was received for at least 120 s, and data restarts the idle period *)
C25_KeepaliveOnlyAfterIdle ==
  /\ \A n \in 1..Len(keepalive) :
       keepalive[n].command # "" => keepalive[n].idle >= IdleThreshold
  /\ event = "data" => last_data_time = now

(* C26: a failed keepalive send is always followed, before the next read,  *)
(* by the backoff sleep and a connection attempt                           *)
C26_KeepaliveFailureReconnects ==
  [][ (\E n \in 1..Len(keepalive') : ~keepalive'[n].ok) =>
        /\ event' = "keepalive_failed"
        /\ slept' = reconnect_delay
        /\ attempts' # << >>
    ]_vars

(* C37: when the comment holds keywords of more than one category the mode *)
(* is the first of CW, SSB, DIGITAL that is present, and it is the same    *)
(* for the comment read in the opposite order                              *)
C37_PriorityIndependentOfOrder ==
  LET c == classified.comment
      present == Categories(c)
      reversed == [i \in 1..Len(c) |-> c[Len(c) + 1 - i]]
  IN
  (classified.applied /\ Cardinality(present) >= 2) =>
    /\ classified.mode = IF "CW" \in present THEN "CW" ELSE "SSB"
    /\ classified.mode =
         determine_mode_and_band(classified.table, classified.frequency,
                                 reversed).mode

C37_Witness ==
  /\ classified.applied
  /\ classified.comment = <<"usb", "rtty">>
  /\ classified.table = TableB
  /\ classified.frequency = 14100
  /\ classified.mode = "SSB"

(* the record the admission step appends for a sighting *)
RecordOf(s) ==
  << s.key[2], s.key[1],
     IF s.src = "net" THEN s.raw.spot.spotter ELSE s.raw.spotter,
     s.mode, s.band, s.region >>

(* the records the run has admitted, in admission order: those of the run  *)
(* so far, then those of the sightings counted since                       *)
AdmittedRecords(log, total) ==
  LET new == SelectSeq(log, LAMBDA s : s.counted) IN
  [n \in 1..(total - Len(new)) |-> EarlierRecord]
    \o [n \in 1..Len(new) |-> RecordOf(new[n])]

C31_RefinedStaysInBand ==
  LET F == rounded.frequency
      suitable ==
        { v \in { IF DecimalMilli(rounded.comment[i]) \in 1000..30000
                  THEN DecimalMilli(rounded.comment[i])
                  ELSE DecimalMilli(rounded.comment[i]) \div 1000 :
                  i \in { n \in 1..Len(rounded.comment) :
                            DecimalMilli(rounded.comment[n]) # -1 } } :
            v % 1000 # 0 /\ FallbackBand(v) = FallbackBand(F) }
  IN
  rounded.applied =>
    /\ rounded.result # F => rounded.result \in suitable
    /\ suitable = {} => rounded.result = F

(* C32: a received line that matches an alternate pattern yields the       *)
(* spotter, frequency and dx callsign captured by that pattern, never a    *)
(* result of the last-resort heuristic                                     *)
C32_AlternatePatternDecides ==
  \A i \in { n \in 1..Len(seen) :
               seen[n].src = "net" /\ seen[n].raw.line \in PeerLines } :
    LET alt == parse_dx_spot_alternates(seen[i].raw.line) IN
    (~StartsDxDe(seen[i].raw.line) /\ alt # NoSpot) =>
      /\ seen[i].raw.spot.spotter = alt.spotter
      /\ seen[i].raw.spot.frequency = alt.frequency
      /\ seen[i].raw.spot.dx_call = alt.dx_call

(* C33: in the last-resort heuristic a token of 3 to 6 digits is never     *)
(* the callsign, and a line with a genuine callsign after the numeric      *)
(* token yields a spot with that callsign                                  *)
C33_NumericTokenNeverCallsign ==
  \A i \in { n \in 1..Len(seen) :
               seen[n].src = "net" /\ seen[n].raw.line \in PeerLines } :
    LET line == seen[i].raw.line
        GenuineCalls == {"W1AW", "JA1ABC", "K2XYZ"}
    IN
    (~StartsDxDe(line) /\ ~DecimalToken(line[1])) =>
      /\ seen[i].raw.spot.dx_call \notin DigitTokens
      /\ \A n \in 1..Len(line) :
           (/\ DecimalToken(line[n])
            /\ \A h \in 1..(n - 1) : line[h] \notin GenuineCalls
            /\ n < Len(line) /\ line[n + 1] \in GenuineCalls)
           => seen[i].raw.spot.dx_call = line[n + 1]

(* C34: every line the peer sends reaches the extractor once and whole,    *)
(* however the stream is divided into reads: no sighting comes from a      *)
(* part of a line                                                          *)
C34_NoFragmentParsed ==
  \A i \in 1..Len(seen) :
    seen[i].src = "net" => seen[i].raw.line \in PeerLines

(* C35: when the document has been fed, the DXWatch extractor has emitted  *)
(* exactly one spot, with its frequency and callsign, for each spot        *)
(* element of the container that has a numeric frequency text and a        *)
(* callsign text, and nothing for elements that lack a field or lie        *)
(* outside the container                                                   *)
C35_OneSpotPerSpotElement ==
  (/\ dxwatch_parser.doc # << >>
   /\ dxwatch_parser.doc.plain
   /\ dxwatch_parser.pos > Len(dxwatch_parser.doc.events))
  => /\ Len(dxwatch_parser.spots) = Len(dxwatch_parser.doc.expected)
     /\ \A i \in 1..Len(dxwatch_parser.spots) :
          /\ dxwatch_parser.spots[i].frequency = dxwatch_parser.doc.expected[i].frequency
          /\ dxwatch_parser.spots[i].dx_call = dxwatch_parser.doc.expected[i].dx_call

(* C36: when the document has been fed, the table extractor has examined   *)
(* every row between a table start tag and its matching end tag once: its  *)
(* spots are those of the rows, one at most per row, in document order,    *)
(* and none twice                                                          *)
C36_EveryRowOnceInOrder ==
  (/\ generic_parser.doc # << >>
   /\ generic_parser.pos > Len(generic_parser.doc.events))
  => generic_parser.spots = process_table_data(generic_parser.doc.rows, << >>)

====
